---- MODULE Spec2Model ----
(***************************************************************************)
(* Inventory / product REST API: token authentication (login, requireAuth),*)
(* the item and product controllers over their document stores, and the    *)
(* paginated listing.  Strings that the code inspects character by         *)
(* character (Authorization header, ids, e-mail addresses, item text) are  *)
(* sequences of one-character strings.                                     *)
(***************************************************************************)
EXTENDS Integers, Sequences, FiniteSets, TLC

VARIABLES
    jwtSecret,   \* process.env.JWT_SECRET: a key, or NoSecret when unset
    now,         \* the wall clock (Date.now()): in days where tokens are
                 \* followed, in milliseconds where listings are
    users,       \* the User collection
    items,       \* the Item collection
    products,    \* the Product collection
    nextItemId,  \* number of item ids generated so far
    nextProdId,  \* number of product ids generated so far
    issued,      \* the token of a successful login that the client under
                 \* observation holds: a set of at most one token
    resp,        \* the latest request handled and the response it got
    listing,     \* the read request that is between two of its store
                 \* queries, if any, with what it has got so far
    seeding,     \* the item seed script is between deleteMany and insertMany
    walk,        \* the pages of one item listing found one after the other
                 \* with no other request in between
    ui           \* the ItemList page of the client: what it shows, the
                 \* selection in its controls and its list requests that
                 \* are not yet answered or whose answer is on its way

vars == <<jwtSecret, now, users, items, products, nextItemId, nextProdId,
          issued, resp, listing, seeding, walk, ui>>

(***************************************************************************)
(* Bounds of the model.                                                    *)
(***************************************************************************)
MaxTime == 7
MaxDocs == 1
MaxListTime == 1
MaxSeedRuns == 1
MaxListProducts == 1

(***************************************************************************)
(* Characters and strings.                                                 *)
(***************************************************************************)
UpperChars == <<"A","B","C","D","E","F","G","H","I","J","K","L","M",
                "N","O","P","Q","R","S","T","U","V","W","X","Y","Z">>
LowerChars == <<"a","b","c","d","e","f","g","h","i","j","k","l","m",
                "n","o","p","q","r","s","t","u","v","w","x","y","z">>
DigitChars == <<"0","1","2","3","4","5","6","7","8","9">>

Range(s) == {s[i] : i \in DOMAIN s}

LowerOf == [c \in Range(UpperChars) |->
               LowerChars[CHOOSE i \in DOMAIN UpperChars : UpperChars[i] = c]]

\* String.prototype.toLowerCase on one character
LowerChar(c) == IF c \in DOMAIN LowerOf THEN LowerOf[c] ELSE c

\* String.prototype.toLowerCase
ToLowerCase(s) == [i \in DOMAIN s |-> LowerChar(s[i])]

\* String.prototype.startsWith
StartsWith(s, p) == Len(s) >= Len(p) /\ SubSeq(s, 1, Len(p)) = p

\* String.prototype.substring(n), n counted from 0
Substring(s, n) == SubSeq(s, n + 1, Len(s))

HexChars == Range(DigitChars) \cup {"a","b","c","d","e","f","A","B","C","D","E","F"}

\* /^[0-9a-fA-F]{24}$/.test(id)
IsObjectIdFormat(id) == Len(id) = 24 /\ \A i \in 1..24 : id[i] \in HexChars

\* The n-th ObjectId generated for a collection; c is a hex character that
\* keeps the ids of different collections apart.
MkId(c, n) ==
    [i \in 1..24 |-> IF i = 1 THEN c
                     ELSE IF i = 23 THEN DigitChars[((n \div 10) % 10) + 1]
                     ELSE IF i = 24 THEN DigitChars[(n % 10) + 1]
                     ELSE "0"]

(***************************************************************************)
(* Numbers.  A number of a request body or of a document is a JSON number  *)
(* of at most three decimals, counted in thousandths.                      *)
(***************************************************************************)
Num(units, thousandths) == units * 1000 + thousandths

\* what JSON.parse makes of a number too large for a double (1e999): it is
\* above every other number and is no integer
Infinity == 2147483647

\* Number.isInteger(x)
IsInteger(x) == x % 1000 = 0

\* Number.isFinite(x)
IsFinite(x) == x # Infinity

(***************************************************************************)
(* Arithmetic on numbers as JavaScript does it: IEEE 754 binary64 with     *)
(* round-to-nearest, ties to even.  A natural number is the sequence of    *)
(* its digits to the base 2^15, lowest first, with no zero at the top; a   *)
(* double that is not negative is m * 2^e with m below 2^53.  The numbers  *)
(* of the model stay far from the subnormal and the infinite.              *)
(***************************************************************************)
MantissaBits == 53
LimbBits == 15
Limb == 2 ^ LimbBits

RECURSIVE LimbsOf(_)
LimbsOf(n) == IF n = 0 THEN <<>> ELSE <<n % Limb>> \o LimbsOf(n \div Limb)

RECURSIVE NatOf(_)
NatOf(a) == IF a = <<>> THEN 0 ELSE Head(a) + Limb * NatOf(Tail(a))

RECURSIVE StripZeros(_)
StripZeros(a) ==
    IF a # <<>> /\ a[Len(a)] = 0 THEN StripZeros(SubSeq(a, 1, Len(a) - 1)) ELSE a

RECURSIVE LimbsAdd(_, _, _)
LimbsAdd(a, b, carry) ==
    IF a = <<>> /\ b = <<>> THEN (IF carry = 0 THEN <<>> ELSE <<carry>>)
    ELSE LET x == IF a = <<>> THEN 0 ELSE Head(a)
             y == IF b = <<>> THEN 0 ELSE Head(b)
         IN  <<(x + y + carry) % Limb>>
             \o LimbsAdd(IF a = <<>> THEN <<>> ELSE Tail(a),
                         IF b = <<>> THEN <<>> ELSE Tail(b), (x + y + carry) \div Limb)

\* a * k + carry for a number k below 2^15
RECURSIVE LimbsTimes(_, _, _)
LimbsTimes(a, k, carry) ==
    IF a = <<>> THEN (IF carry = 0 THEN <<>> ELSE <<carry>>)
    ELSE <<(Head(a) * k + carry) % Limb>>
         \o LimbsTimes(Tail(a), k, (Head(a) * k + carry) \div Limb)

\* a * 2^(15 n)
ShiftLimbs(a, n) == IF a = <<>> THEN <<>> ELSE [i \in 1..n |-> 0] \o a

RECURSIVE LimbsMul(_, _)
LimbsMul(a, b) ==
    IF a = <<>> \/ b = <<>> THEN <<>>
    ELSE LimbsAdd(StripZeros(LimbsTimes(a, Head(b), 0)),
                  ShiftLimbs(LimbsMul(a, Tail(b)), 1), 0)

\* quotient (with zeros at the top) and remainder of a by d, d at most 2^15
RECURSIVE LimbsDivMod(_, _)
LimbsDivMod(a, d) ==
    IF a = <<>> THEN [q |-> <<>>, r |-> 0]
    ELSE LET hi == LimbsDivMod(Tail(a), d)
         IN  [q |-> <<(hi.r * Limb + Head(a)) \div d>> \o hi.q,
              r |-> (hi.r * Limb + Head(a)) % d]

\* the number of binary digits of a
BitLength(a) ==
    IF a = <<>> THEN 0
    ELSE LimbBits * (Len(a) - 1)
         + (CHOOSE k \in 1..LimbBits : 2 ^ (k - 1) <= a[Len(a)] /\ a[Len(a)] < 2 ^ k)

\* a * 2^k
ShiftLeft(a, k) ==
    StripZeros(LimbsTimes(ShiftLimbs(a, k \div LimbBits), 2 ^ (k % LimbBits), 0))

\* a divided by 2^k: the quotient, and whether anything was cut off
ShiftRight(a, k) ==
    LET n == k \div LimbBits
        d == LimbsDivMod(SubSeq(a, n + 1, Len(a)), 2 ^ (k % LimbBits))
    IN  [q |-> StripZeros(d.q),
         cut |-> d.r # 0 \/ \E i \in 1..n : i <= Len(a) /\ a[i] # 0]

IsOdd(a) == a # <<>> /\ Head(a) % 2 = 1

Double(m, e) == [m |-> m, e |-> e]

\* the double nearest to n * 2^e (plus a little, when sticky): the digits
\* below the 53 kept ones decide, a tie goes to the even mantissa
RoundToDouble(n, e, sticky) ==
    IF BitLength(n) <= MantissaBits THEN Double(n, e)
    ELSE LET k == BitLength(n) - MantissaBits
             low == ShiftRight(n, k - 1)
             kept == StripZeros(LimbsDivMod(low.q, 2).q)
             up == IsOdd(low.q) /\ (sticky \/ low.cut \/ IsOdd(kept))
             m == IF up THEN LimbsAdd(kept, <<1>>, 0) ELSE kept
         IN  IF BitLength(m) > MantissaBits
             THEN Double(StripZeros(LimbsDivMod(m, 2).q), e + k + 1)
             ELSE Double(m, e + k)

\* the double JSON.parse makes of the decimal text of x thousandths
DoubleOf(x) ==
    LET d == LimbsDivMod(ShiftLeft(LimbsOf(x), 64), 1000)
    IN  RoundToDouble(StripZeros(d.q), 0 - 64, d.r # 0)

\* x * y
DoubleMul(x, y) == RoundToDouble(LimbsMul(x.m, y.m), x.e + y.e, FALSE)

\* x + y
DoubleAdd(x, y) ==
    IF x.m = <<>> THEN y
    ELSE IF y.m = <<>> THEN x
    ELSE LET e == IF x.e < y.e THEN x.e ELSE y.e
         IN  RoundToDouble(LimbsAdd(ShiftLeft(x.m, x.e - e), ShiftLeft(y.m, y.e - e), 0),
                           e, FALSE)

\* Math.round(x): the integer nearest to x, a half going up
MathRound(x) ==
    IF x.e >= 0 THEN NatOf(ShiftLeft(x.m, x.e))
    ELSE LET low == ShiftRight(x.m, 0 - x.e - 1)
         IN  NatOf(StripZeros(LimbsDivMod(low.q, 2).q)) + (IF IsOdd(low.q) THEN 1 ELSE 0)

\* Math.round(x * 100) / 100, in thousandths: the quotient is the double
\* nearest to a number of two decimals, and is printed as that number
RoundTo2Decimals(x) == 10 * MathRound(DoubleMul(x, Double(LimbsOf(100), 0)))

(***************************************************************************)
(* Users, password hashes and the demo accounts of the seeder.             *)
(***************************************************************************)
AdminEmail == <<"a","d","m","i","n","@","e","x","a","m","p","l","e",".","c","o","m">>
UserEmail == <<"u","s","e","r","@","e","x","a","m","p","l","e",".","c","o","m">>
AdminEmailCaps == <<"A","d","m","i","n","@","E","x","a","m","p","l","e",".","c","o","m">>
NobodyEmail == <<"n","o","@","e","x","a","m","p","l","e",".","c","o","m">>
NotAnEmail == <<"a","d","m","i","n">>

Salts == {"salt1", "salt2"}

\* faulty variant: the password is kept as it is
BcryptHashPlain(password, salt) == [alg |-> "plain", salt |-> "", of |-> password]

\* bcrypt.hash(password, 10): a salted one-way hash, never the password itself
BcryptHash(password, salt) == [alg |-> "bcrypt", salt |-> salt, of |-> password]

\* bcrypt.compare(password, hash)
BcryptCompare(password, hash) == hash.alg = "bcrypt" /\ hash.of = password

\* the users array of seedUsers
DemoUsers == <<[email |-> AdminEmail, password |-> "AdminPass123!", role |-> "admin"],
               [email |-> UserEmail, password |-> "UserPass123!", role |-> "user"]>>

\* UserModel.findOne({ email })
FindUserByEmail(us, email) == {u \in us : u.email = email}

\* UserSchema: email is stored lowercased (lowercase: true)
NewUser(us, email, hash, role) ==
    [id |-> MkId("c", Cardinality(us)), email |-> ToLowerCase(email),
     password |-> hash, role |-> role]

\* faulty variant: the account is created without looking for it first
SeedOneAlways(us, userData, salt) ==
    us \cup {NewUser(us, userData.email, BcryptHash(userData.password, salt), userData.role)}

\* one pass of the seeder's loop body over userData, with the salt bcrypt draws
SeedOne(us, userData, salt) ==
    IF FindUserByEmail(us, userData.email) # {}
    THEN us
    ELSE us \cup {NewUser(us, userData.email, BcryptHash(userData.password, salt), userData.role)}

\* seedUsers: the loop over the two demo users, in order
SeedUsersResult(us, salt1, salt2) == SeedOne(SeedOne(us, DemoUsers[1], salt1), DemoUsers[2], salt2)

(***************************************************************************)
(* JSON web tokens (jsonwebtoken sign / verify with HS256).                *)
(***************************************************************************)
NoSecret == ""
ServerSecret == "server-secret"
AttackerSecret == "attacker-secret"

\* expiresIn: "7d"; the clock counts days
TokenTTL == 7

\* HMAC over the token's header and payload under a key
Mac(key, alg, payload) == [key |-> key, alg |-> alg, payload |-> payload]

\* faulty variant: every token says admin
JwtSignAsAdmin(sub, role, secret, t) ==
    LET payload == [sub |-> sub, role |-> "admin", iat |-> t, exp |-> t + TokenTTL]
    IN  [kind |-> "jwt", alg |-> "HS256", payload |-> payload,
         sig |-> Mac(secret, "HS256", payload)]

\* faulty variant: the token outlives its seven days by a day
JwtSignLongLived(sub, role, secret, t) ==
    LET payload == [sub |-> sub, role |-> role, iat |-> t, exp |-> t + TokenTTL + 1]
    IN  [kind |-> "jwt", alg |-> "HS256", payload |-> payload,
         sig |-> Mac(secret, "HS256", payload)]

\* jwt.sign(tokenPayload, jwtSecret, { algorithm: "HS256", expiresIn: "7d" }) at time t
JwtSign(sub, role, secret, t) ==
    LET payload == [sub |-> sub, role |-> role, iat |-> t, exp |-> t + TokenTTL]
    IN  [kind |-> "jwt", alg |-> "HS256", payload |-> payload,
         sig |-> Mac(secret, "HS256", payload)]

NoPayload == [sub |-> <<>>, role |-> "none", iat |-> 0, exp |-> 0]
GarbageToken == [kind |-> "garbage", alg |-> "", payload |-> NoPayload,
                 sig |-> Mac("", "", NoPayload)]
EmptyToken == [kind |-> "empty", alg |-> "", payload |-> NoPayload,
               sig |-> Mac("", "", NoPayload)]

\* jwt.verify(token, secret, { algorithms: ["HS256"] }) at time t: the name of
\* the error it throws, or "ok".  lead is text found in front of the token.
\* The structure is checked first, then the signature, then the expiry.
JwtVerify(lead, token, secret, t) ==
    IF token.kind # "jwt" \/ lead # <<>> THEN "JsonWebTokenError"
    ELSE IF token.alg # "HS256" THEN "JsonWebTokenError"
    ELSE IF token.sig # Mac(secret, token.alg, token.payload) THEN "JsonWebTokenError"
    ELSE IF t >= token.payload.exp THEN "TokenExpiredError"
    ELSE "ok"

(***************************************************************************)
(* The Authorization header and requireAuth.                               *)
(***************************************************************************)
BearerPrefix == <<"B","e","a","r","e","r"," ">>

\* A header value is text followed by a token's text; an absent header has
\* present = FALSE.  A token's text holds no space, so the text in front of
\* it decides startsWith("Bearer ").
Header(text, token) == [present |-> TRUE, text |-> text, token |-> token]
NoHeader == [present |-> FALSE, text |-> <<>>, token |-> EmptyToken]
EmptyHeader == Header(<<>>, EmptyToken)
Bearer(token) == Header(BearerPrefix, token)

\* !authHeader
HeaderFalsy(hdr) == ~hdr.present \/ (hdr.text = <<>> /\ hdr.token.kind = "empty")

\* errorHandler(err, req, res, next) for an error that is none of the kinds
\* it tells apart: status err.statusCode || 500 (0 stands for no
\* statusCode), body {error: err.message || "Internal Server Error"}
ErrorHandler(statusCode, message) ==
    [status |-> IF statusCode = 0 THEN 500 ELSE statusCode,
     error |-> IF message = "" THEN "Internal Server Error" ELSE message]

\* asyncHandler(fn): the error that the handler throws is passed to next,
\* and so to errorHandler
AsyncHandler(statusCode, message) == ErrorHandler(statusCode, message)

NoUser == [id |-> <<>>, role |-> "none"]
NoRole == "none"

AuthResult(next, status, error, message, user) ==
    [next |-> next, status |-> status, error |-> error, message |-> message, user |-> user]

\* faulty variant: any header that is present is taken to carry a token
RequireAuthAnyScheme(role, hdr, secret, t) ==
    IF HeaderFalsy(hdr)
    THEN AuthResult(FALSE, 401, "Unauthorized", "Malformed Authorization header", NoUser)
    ELSE IF secret = NoSecret
    THEN AuthResult(FALSE, 500, "JWT_SECRET not configured", "", NoUser)
    ELSE LET verdict == JwtVerify(<<>>, hdr.token, secret, t)
             decoded == hdr.token.payload
             user == [id |-> decoded.sub, role |-> decoded.role]
         IN  IF verdict = "TokenExpiredError"
             THEN AuthResult(FALSE, 401, "Unauthorized", "Token expired", NoUser)
             ELSE IF verdict = "JsonWebTokenError"
             THEN AuthResult(FALSE, 401, "Unauthorized", "Invalid token", NoUser)
             ELSE IF role = "admin" /\ decoded.role # "admin"
             THEN AuthResult(FALSE, 403, "Forbidden", "", user)
             ELSE AuthResult(TRUE, 0, "", "", user)

\* faulty variant: the role argument is ignored
RequireAuthAnyRole(role, hdr, secret, t) ==
    IF HeaderFalsy(hdr) \/ ~StartsWith(hdr.text, BearerPrefix)
    THEN AuthResult(FALSE, 401, "Unauthorized", "Malformed Authorization header", NoUser)
    ELSE IF secret = NoSecret
    THEN AuthResult(FALSE, 500, "JWT_SECRET not configured", "", NoUser)
    ELSE LET verdict == JwtVerify(Substring(hdr.text, 7), hdr.token, secret, t)
             decoded == hdr.token.payload
             user == [id |-> decoded.sub, role |-> decoded.role]
         IN  IF verdict = "TokenExpiredError"
             THEN AuthResult(FALSE, 401, "Unauthorized", "Token expired", NoUser)
             ELSE IF verdict = "JsonWebTokenError"
             THEN AuthResult(FALSE, 401, "Unauthorized", "Invalid token", NoUser)
             ELSE AuthResult(TRUE, 0, "", "", user)

\* faulty variant: the expiry error is not told apart from the other verify errors
RequireAuthOneMessage(role, hdr, secret, t) ==
    IF HeaderFalsy(hdr) \/ ~StartsWith(hdr.text, BearerPrefix)
    THEN AuthResult(FALSE, 401, "Unauthorized", "Malformed Authorization header", NoUser)
    ELSE IF secret = NoSecret
    THEN AuthResult(FALSE, 500, "JWT_SECRET not configured", "", NoUser)
    ELSE LET verdict == JwtVerify(Substring(hdr.text, 7), hdr.token, secret, t)
             decoded == hdr.token.payload
             user == [id |-> decoded.sub, role |-> decoded.role]
         IN  IF verdict # "ok"
             THEN AuthResult(FALSE, 401, "Unauthorized", "Invalid token", NoUser)
             ELSE IF role = "admin" /\ decoded.role # "admin"
             THEN AuthResult(FALSE, 403, "Forbidden", "", user)
             ELSE AuthResult(TRUE, 0, "", "", user)

\* faulty variant: a missing secret is answered like a token that fails
RequireAuthSecretAs401(role, hdr, secret, t) ==
    IF HeaderFalsy(hdr) \/ ~StartsWith(hdr.text, BearerPrefix)
    THEN AuthResult(FALSE, 401, "Unauthorized", "Malformed Authorization header", NoUser)
    ELSE LET verdict == JwtVerify(Substring(hdr.text, 7), hdr.token, secret, t)
             decoded == hdr.token.payload
             user == [id |-> decoded.sub, role |-> decoded.role]
         IN  IF secret = NoSecret
             THEN AuthResult(FALSE, 401, "Unauthorized", "JWT_SECRET not configured", NoUser)
             ELSE IF verdict = "TokenExpiredError"
             THEN AuthResult(FALSE, 401, "Unauthorized", "Token expired", NoUser)
             ELSE IF verdict = "JsonWebTokenError"
             THEN AuthResult(FALSE, 401, "Unauthorized", "Invalid token", NoUser)
             ELSE IF role = "admin" /\ decoded.role # "admin"
             THEN AuthResult(FALSE, 403, "Forbidden", "", user)
             ELSE AuthResult(TRUE, 0, "", "", user)

\* requireAuth(role)(req, res, next) with the request's header hdr at time t;
\* the error it throws for a missing secret has a statusCode, is thrown
\* again by its catch and reaches errorHandler through the router
RequireAuth(role, hdr, secret, t) ==
    IF HeaderFalsy(hdr) \/ ~StartsWith(hdr.text, BearerPrefix)
    THEN AuthResult(FALSE, 401, "Unauthorized", "Malformed Authorization header", NoUser)
    ELSE IF secret = NoSecret
    THEN AuthResult(FALSE, ErrorHandler(500, "JWT_SECRET not configured").status,
                    ErrorHandler(500, "JWT_SECRET not configured").error, "", NoUser)
    ELSE LET verdict == JwtVerify(Substring(hdr.text, 7), hdr.token, secret, t)
             decoded == hdr.token.payload
             user == [id |-> decoded.sub, role |-> decoded.role]
         IN  IF verdict = "TokenExpiredError"
             THEN AuthResult(FALSE, 401, "Unauthorized", "Token expired", NoUser)
             ELSE IF verdict = "JsonWebTokenError"
             THEN AuthResult(FALSE, 401, "Unauthorized", "Invalid token", NoUser)
             ELSE IF role = "admin" /\ decoded.role # "admin"
             THEN AuthResult(FALSE, 403, "Forbidden", "", user)
             ELSE AuthResult(TRUE, 0, "", "", user)

(***************************************************************************)
(* Login (auth.controller).                                                *)
(***************************************************************************)
Count(s, c) == Cardinality({i \in DOMAIN s : s[i] = c})

\* z.string().email(): one "@" with a local part in front of it and, after
\* it, a domain with a dot that is neither its first nor its last character
IsEmail(s) ==
    /\ Count(s, "@") = 1
    /\ LET at == CHOOSE i \in DOMAIN s : s[i] = "@"
       IN  /\ at > 1
           /\ \E d \in (at + 2)..(Len(s) - 1) : s[d] = "."
           /\ s[Len(s)] # "."

LoginResult(status, error, token, user) ==
    [status |-> status, error |-> error, token |-> token, user |-> user]

\* faulty variant: an unknown e-mail address gets an answer of its own
LoginOutcomeTellsUnknown(us, secret, t, email, password) ==
    IF ~IsEmail(email) \/ password = ""
    THEN LoginResult(400, "Validation failed", <<>>, NoUser)
    ELSE LET found == FindUserByEmail(us, ToLowerCase(email))
         IN  IF found = {}
             THEN LoginResult(404, "User not found", <<>>, NoUser)
             ELSE LET user == CHOOSE u \in found : TRUE
                  IN  IF ~BcryptCompare(password, user.password)
                      THEN LoginResult(401, "Invalid credentials", <<>>, NoUser)
                      ELSE IF secret = NoSecret
                      THEN LoginResult(500, "JWT_SECRET not configured", <<>>, NoUser)
                      ELSE LoginResult(200, "", <<JwtSign(user.id, user.role, secret, t)>>,
                                       [id |-> user.id, role |-> user.role])

\* login(req, res) with body {email, password} at time t; token is <<>> or
\* the one token returned; the error thrown for a missing secret is thrown
\* again by the catch and handled around the controller
LoginOutcome(us, secret, t, email, password) ==
    IF ~IsEmail(email) \/ password = ""
    THEN LoginResult(400, "Validation failed", <<>>, NoUser)
    ELSE LET found == FindUserByEmail(us, ToLowerCase(email))
         IN  IF found = {}
             THEN LoginResult(401, "Invalid credentials", <<>>, NoUser)
             ELSE LET user == CHOOSE u \in found : TRUE
                  IN  IF ~BcryptCompare(password, user.password)
                      THEN LoginResult(401, "Invalid credentials", <<>>, NoUser)
                      ELSE IF secret = NoSecret
                      THEN LoginResult(AsyncHandler(500, "JWT_SECRET not configured").status,
                                       AsyncHandler(500, "JWT_SECRET not configured").error,
                                       <<>>, NoUser)
                      ELSE LoginResult(200, "", <<JwtSign(user.id, user.role, secret, t)>>,
                                       [id |-> user.id, role |-> user.role])

(***************************************************************************)
(* Item validation (zod createItemSchema / updateItemSchema) and the       *)
(* ItemSchema of the store.                                                *)
(***************************************************************************)
Has(body, f) == f \in DOMAIN body

RECURSIVE TrimLeft(_)
TrimLeft(s) == IF s # <<>> /\ Head(s) = " " THEN TrimLeft(Tail(s)) ELSE s

RECURSIVE TrimRight(_)
TrimRight(s) == IF s # <<>> /\ s[Len(s)] = " " THEN TrimRight(SubSeq(s, 1, Len(s) - 1)) ELSE s

\* String.prototype.trim (mongoose trim: true)
Trim(s) == TrimRight(TrimLeft(s))

Issue(path, message) == [path |-> path, message |-> message]

\* z.string().min(1, m1).min(lo, m2).max(hi, m3) of a field; every failing
\* check adds its issue
StringIssues(body, f, lo, hi, m1, m2, m3) ==
    IF ~Has(body, f) THEN <<Issue(f, "Required")>>
    ELSE (IF Len(body[f]) < 1 THEN <<Issue(f, m1)>> ELSE <<>>)
         \o (IF Len(body[f]) < lo THEN <<Issue(f, m2)>> ELSE <<>>)
         \o (IF Len(body[f]) > hi THEN <<Issue(f, m3)>> ELSE <<>>)

\* z.number() of a field with one bound check: a negative value is refused
NumberIssues(body, f, m) ==
    IF ~Has(body, f) THEN <<Issue(f, "Required")>>
    ELSE IF body[f] < 0 THEN <<Issue(f, m)>> ELSE <<>>

ItemNameIssues(body) ==
    StringIssues(body, "itemName", 2, 100, "Item name is required",
                 "Item name must be at least 2 characters",
                 "Item name must not exceed 100 characters")
DescriptionIssues(body) ==
    StringIssues(body, "description", 5, 500, "Description is required",
                 "Description must be at least 5 characters",
                 "Description must not exceed 500 characters")
CategoryIssues(body) ==
    StringIssues(body, "category", 2, 50, "Category is required",
                 "Category must be at least 2 characters",
                 "Category must not exceed 50 characters")

\* z.number().int(m1).nonnegative(m2) of quantity
QuantityIssues(body) ==
    IF ~Has(body, "quantity") THEN <<Issue("quantity", "Required")>>
    ELSE (IF ~IsInteger(body.quantity)
          THEN <<Issue("quantity", "Quantity must be an integer")>> ELSE <<>>)
         \o (IF body.quantity < 0
             THEN <<Issue("quantity", "Quantity cannot be negative")>> ELSE <<>>)

\* z.number().nonnegative(m1).finite(m2) of price
PriceIssues(body) ==
    IF ~Has(body, "price") THEN <<Issue("price", "Required")>>
    ELSE (IF body.price < 0
          THEN <<Issue("price", "Price cannot be negative")>> ELSE <<>>)
         \o (IF ~IsFinite(body.price)
             THEN <<Issue("price", "Price must be a valid number")>> ELSE <<>>)

\* faulty variant: the validation stops at the first failure
CreateItemFirstIssue(body) ==
    SubSeq(ItemNameIssues(body) \o QuantityIssues(body) \o PriceIssues(body)
           \o DescriptionIssues(body) \o CategoryIssues(body), 1, 1)

\* createItemSchema.safeParse(body): the issues, in declaration order
CreateItemIssues(body) ==
    ItemNameIssues(body)
    \o QuantityIssues(body)
    \o PriceIssues(body)
    \o DescriptionIssues(body)
    \o CategoryIssues(body)

\* updateItemSchema = createItemSchema.partial(): absent fields are not checked
UpdateItemIssues(body) ==
    (IF Has(body, "itemName") THEN ItemNameIssues(body) ELSE <<>>)
    \o (IF Has(body, "quantity") THEN QuantityIssues(body) ELSE <<>>)
    \o (IF Has(body, "price") THEN PriceIssues(body) ELSE <<>>)
    \o (IF Has(body, "description") THEN DescriptionIssues(body) ELSE <<>>)
    \o (IF Has(body, "category") THEN CategoryIssues(body) ELSE <<>>)

ItemStringFields == {"itemName", "description", "category"}
ItemFields == ItemStringFields \cup {"quantity", "price"}

\* ItemSchema casting of supplied fields: strings are trimmed
CastItemFields(body) ==
    [f \in DOMAIN body |-> IF f \in ItemStringFields THEN Trim(body[f]) ELSE body[f]]

\* ItemSchema validators on the cast fields: a required string must not be
\* empty, a number must not be below 0
ItemSchemaValid(cast) ==
    /\ \A f \in DOMAIN cast \cap ItemStringFields : cast[f] # <<>>
    /\ \A f \in DOMAIN cast \cap {"quantity", "price"} : cast[f] >= 0

\* the messages of the ItemSchema validators
ItemSchemaMessage ==
    [itemName |-> [required |-> "Item name is required", min |-> ""],
     quantity |-> [required |-> "Quantity is required", min |-> "Quantity cannot be negative"],
     price |-> [required |-> "Price is required", min |-> "Price cannot be negative"],
     description |-> [required |-> "Description is required", min |-> ""],
     category |-> [required |-> "Category is required", min |-> ""]]

\* the errors of the ValidationError the ItemSchema validators raise on the
\* cast fields, as the error handler lists them, in the order of the schema
ItemSchemaIssues(cast) ==
    LET Of(f) ==
            IF ~Has(cast, f) THEN <<>>
            ELSE IF f \in ItemStringFields
            THEN (IF cast[f] = <<>> THEN <<Issue(f, ItemSchemaMessage[f].required)>> ELSE <<>>)
            ELSE (IF cast[f] < 0 THEN <<Issue(f, ItemSchemaMessage[f].min)>> ELSE <<>>)
    IN  Of("itemName") \o Of("quantity") \o Of("price") \o Of("description") \o Of("category")

(***************************************************************************)
(* The document store operations the controllers use.                      *)
(***************************************************************************)
\* Model.findById(id): the id is cast to an ObjectId, whose hex is lowercase
FindById(store, id) == {d \in store : d.id = ToLowerCase(id)}

\* $set of the cast fields and the refreshed updatedAt on one document
ApplyUpdate(doc, cast, t) ==
    [f \in DOMAIN doc |-> IF f \in DOMAIN cast THEN cast[f]
                          ELSE IF f = "updatedAt" THEN t ELSE doc[f]]

\* What a controller hands back: the response, the number of store
\* round-trips it issued, and the collection afterwards.  data holds the
\* documents of a success and the details of a failed validation.
Outcome(status, error, message, storeOps, data, store) ==
    [status |-> status, error |-> error, message |-> message,
     storeOps |-> storeOps, data |-> data, store |-> store]

(***************************************************************************)
(* Item controller.                                                        *)
(***************************************************************************)
\* faulty variant: every document gets the id of the first
NewItemReusedId(n, cast, t) ==
    [id |-> MkId("a", 0), itemName |-> cast.itemName, quantity |-> cast.quantity,
     price |-> cast.price, description |-> cast.description,
     category |-> cast.category, createdAt |-> t, updatedAt |-> t]

\* the document ItemModel.create builds: timestamps: true sets both stamps
NewItem(n, cast, t) ==
    [id |-> MkId("a", n), itemName |-> cast.itemName, quantity |-> cast.quantity,
     price |-> cast.price, description |-> cast.description,
     category |-> cast.category, createdAt |-> t, updatedAt |-> t]

\* createItem(req, res); n is the number of item ids generated so far
CreateItem(its, n, body, t) ==
    IF CreateItemIssues(body) # <<>>
    THEN Outcome(400, "Validation failed", "", 0, CreateItemIssues(body), its)
    ELSE IF ~ItemSchemaValid(CastItemFields(body))
    THEN Outcome(400, "Validation failed", "", 0,
                 ItemSchemaIssues(CastItemFields(body)), its)
    ELSE LET doc == NewItem(n, CastItemFields(body), t)
         IN  Outcome(201, "", "Item created successfully", 1, <<doc>>, its \cup {doc})

\* getItem(req, res)
GetItem(its, id) ==
    IF ~IsObjectIdFormat(id)
    THEN Outcome(400, "Invalid item ID format", "", 0, <<>>, its)
    ELSE IF FindById(its, id) = {}
    THEN Outcome(404, "Item not found", "", 1, <<>>, its)
    ELSE Outcome(200, "", "", 1, <<CHOOSE d \in FindById(its, id) : TRUE>>, its)

\* faulty variant: the body is validated before the id is looked at
UpdateItemBodyFirst(its, id, body, t) ==
    IF UpdateItemIssues(body) # <<>>
    THEN Outcome(400, "Validation failed", "", 0, UpdateItemIssues(body), its)
    ELSE IF ~IsObjectIdFormat(id)
    THEN Outcome(400, "Invalid item ID format", "", 0, <<>>, its)
    ELSE IF ~ItemSchemaValid(CastItemFields(body))
    THEN Outcome(400, "Validation failed", "", 0,
                 ItemSchemaIssues(CastItemFields(body)), its)
    ELSE IF FindById(its, id) = {}
    THEN Outcome(404, "Item not found", "", 1, <<>>, its)
    ELSE LET old == CHOOSE d \in FindById(its, id) : TRUE
             new == ApplyUpdate(old, CastItemFields(body), t)
         IN  Outcome(200, "", "Item updated successfully", 1, <<new>>,
                     (its \ {old}) \cup {new})

\* faulty variant: the update is written first and validated afterwards
UpdateItemWritesFirst(its, id, body, t) ==
    IF ~IsObjectIdFormat(id)
    THEN Outcome(400, "Invalid item ID format", "", 0, <<>>, its)
    ELSE IF UpdateItemIssues(body) # <<>>
    THEN Outcome(400, "Validation failed", "", 0, UpdateItemIssues(body), its)
    ELSE IF FindById(its, id) = {}
    THEN Outcome(404, "Item not found", "", 1, <<>>, its)
    ELSE LET old == CHOOSE d \in FindById(its, id) : TRUE
             new == ApplyUpdate(old, CastItemFields(body), t)
         IN  IF ~ItemSchemaValid(CastItemFields(body))
             THEN Outcome(400, "Validation failed", "", 1,
                          ItemSchemaIssues(CastItemFields(body)),
                          (its \ {old}) \cup {new})
             ELSE Outcome(200, "", "Item updated successfully", 1, <<new>>,
                          (its \ {old}) \cup {new})

\* updateItem(req, res)
UpdateItem(its, id, body, t) ==
    IF ~IsObjectIdFormat(id)
    THEN Outcome(400, "Invalid item ID format", "", 0, <<>>, its)
    ELSE IF UpdateItemIssues(body) # <<>>
    THEN Outcome(400, "Validation failed", "", 0, UpdateItemIssues(body), its)
    ELSE IF ~ItemSchemaValid(CastItemFields(body))
    THEN Outcome(400, "Validation failed", "", 0,
                 ItemSchemaIssues(CastItemFields(body)), its)
    ELSE IF FindById(its, id) = {}
    THEN Outcome(404, "Item not found", "", 1, <<>>, its)
    ELSE LET old == CHOOSE d \in FindById(its, id) : TRUE
             new == ApplyUpdate(old, CastItemFields(body), t)
         IN  Outcome(200, "", "Item updated successfully", 1, <<new>>,
                     (its \ {old}) \cup {new})

\* faulty variant: the item is reported deleted and stays in the store
DeleteItemKeeps(its, id) ==
    IF ~IsObjectIdFormat(id)
    THEN Outcome(400, "Invalid item ID format", "", 0, <<>>, its)
    ELSE IF FindById(its, id) = {}
    THEN Outcome(404, "Item not found", "", 1, <<>>, its)
    ELSE Outcome(204, "", "", 1, <<>>, its)

\* deleteItem(req, res)
DeleteItem(its, id) ==
    IF ~IsObjectIdFormat(id)
    THEN Outcome(400, "Invalid item ID format", "", 0, <<>>, its)
    ELSE IF FindById(its, id) = {}
    THEN Outcome(404, "Item not found", "", 1, <<>>, its)
    ELSE Outcome(204, "", "", 1, <<>>, its \ FindById(its, id))

(***************************************************************************)
(* Product validation and controller.                                      *)
(***************************************************************************)
\* createProductSchema: name of at least 2 characters, price not negative;
\* description, inStock and tags are optional
ProductNameIssues(body) ==
    IF ~Has(body, "name") THEN <<Issue("name", "Required")>>
    ELSE IF Len(body.name) < 2 THEN <<Issue("name", "too_small")>> ELSE <<>>

CreateProductIssues(body) ==
    ProductNameIssues(body) \o NumberIssues(body, "price", "too_small")

\* updateProductSchema = createProductSchema.partial()
UpdateProductIssues(body) ==
    (IF Has(body, "name") THEN ProductNameIssues(body) ELSE <<>>)
    \o (IF Has(body, "price") THEN NumberIssues(body, "price", "too_small") ELSE <<>>)

\* ProductSchema casting: name is trimmed
CastProductFields(body) ==
    [f \in DOMAIN body |-> IF f = "name" THEN Trim(body[f]) ELSE body[f]]

\* ProductSchema validators: name required, price min 0
ProductSchemaValid(cast) ==
    /\ Has(cast, "name") => cast.name # <<>>
    /\ Has(cast, "price") => cast.price >= 0

\* the document ProductModel.create builds, with the schema's defaults
NewProduct(n, cast, t) ==
    [id |-> MkId("b", n), name |-> cast.name,
     description |-> IF Has(cast, "description") THEN cast.description ELSE <<>>,
     price |-> cast.price,
     inStock |-> IF Has(cast, "inStock") THEN cast.inStock ELSE TRUE,
     tags |-> IF Has(cast, "tags") THEN cast.tags ELSE <<>>,
     createdAt |-> t, updatedAt |-> t]

\* createProduct(req, res)
CreateProduct(ps, n, body, t) ==
    IF CreateProductIssues(body) # <<>>
    THEN Outcome(400, "Validation failed", "", 0, <<>>, ps)
    ELSE IF ~ProductSchemaValid(CastProductFields(body))
    THEN Outcome(400, "Validation failed", "", 0, <<>>, ps)
    ELSE LET doc == NewProduct(n, CastProductFields(body), t)
         IN  Outcome(201, "", "Product created successfully", 1, <<doc>>, ps \cup {doc})

\* getProduct(req, res)
GetProduct(ps, id) ==
    IF ~IsObjectIdFormat(id)
    THEN Outcome(400, "Invalid product ID format", "", 0, <<>>, ps)
    ELSE IF FindById(ps, id) = {}
    THEN Outcome(404, "Product not found", "", 1, <<>>, ps)
    ELSE Outcome(200, "", "", 1, <<CHOOSE d \in FindById(ps, id) : TRUE>>, ps)

\* updateProduct(req, res)
UpdateProduct(ps, id, body, t) ==
    IF ~IsObjectIdFormat(id)
    THEN Outcome(400, "Invalid product ID format", "", 0, <<>>, ps)
    ELSE IF UpdateProductIssues(body) # <<>>
    THEN Outcome(400, "Validation failed", "", 0, <<>>, ps)
    ELSE IF ~ProductSchemaValid(CastProductFields(body))
    THEN Outcome(400, "Validation failed", "", 0, <<>>, ps)
    ELSE IF FindById(ps, id) = {}
    THEN Outcome(404, "Product not found", "", 1, <<>>, ps)
    ELSE LET old == CHOOSE d \in FindById(ps, id) : TRUE
             new == ApplyUpdate(old, CastProductFields(body), t)
         IN  Outcome(200, "", "Product updated successfully", 1, <<new>>,
                     (ps \ {old}) \cup {new})

\* deleteProduct(req, res)
DeleteProduct(ps, id) ==
    IF ~IsObjectIdFormat(id)
    THEN Outcome(400, "Invalid product ID format", "", 0, <<>>, ps)
    ELSE IF FindById(ps, id) = {}
    THEN Outcome(404, "Product not found", "", 1, <<>>, ps)
    ELSE Outcome(204, "", "", 1, <<>>, ps \ FindById(ps, id))

(***************************************************************************)
(* Paginated listing: listItems and listProducts.                          *)
(***************************************************************************)
Min(a, b) == IF a < b THEN a ELSE b
Max(a, b) == IF a > b THEN a ELSE b

DigitValue(c) == CHOOSE n \in 0..9 : DigitChars[n + 1] = c

\* the longest run of decimal digits s starts with
RECURSIVE DigitsPrefix(_)
DigitsPrefix(s) ==
    IF s # <<>> /\ Head(s) \in Range(DigitChars)
    THEN <<Head(s)>> \o DigitsPrefix(Tail(s)) ELSE <<>>

RECURSIVE DigitsValue(_)
DigitsValue(ds) ==
    IF ds = <<>> THEN 0
    ELSE 10 * DigitsValue(SubSeq(ds, 1, Len(ds) - 1)) + DigitValue(ds[Len(ds)])

NaN == [nan |-> TRUE, val |-> 0]

\* parseInt(s): leading blanks, an optional sign, then decimal digits up to
\* the first character that is none; NaN when there is no digit
ParseInt(s) ==
    LET t == TrimLeft(s)
        signed == t # <<>> /\ Head(t) \in {"-", "+"}
        ds == DigitsPrefix(IF signed THEN Tail(t) ELSE t)
    IN  IF ds = <<>> THEN NaN
        ELSE [nan |-> FALSE,
              val |-> IF Head(t) = "-" THEN 0 - DigitsValue(ds) ELSE DigitsValue(ds)]

\* parseInt(...) || d: NaN and 0 are falsy
OrDefault(p, d) == IF p.nan \/ p.val = 0 THEN d ELSE p.val

\* const { limit = dflt } = req.query; Math.min(parseInt(limit) || d, 100)
LimitNum(query, dflt, d) ==
    Min(OrDefault(ParseInt(IF Has(query, "limit") THEN query.limit ELSE dflt), d), 100)

\* const { page = "1" } = req.query; Math.max(parseInt(page) || 1, 1)
PageNum(query) ==
    Max(OrDefault(ParseInt(IF Has(query, "page") THEN query.page ELSE <<"1">>), 1), 1)

\* sub occurs in s
Contains(s, sub) ==
    \E i \in 1..(Len(s) - Len(sub) + 1) : SubSeq(s, i, i + Len(sub) - 1) = sub

\* the pattern begins with the anchor ^, ends with the anchor $
AnchoredAtStart(pattern) == pattern # <<>> /\ Head(pattern) = "^"
AnchoredAtEnd(pattern) ==
    /\ Len(pattern) >= (IF AnchoredAtStart(pattern) THEN 2 ELSE 1)
    /\ pattern[Len(pattern)] = "$"

\* the pattern without its anchors
RegexCore(pattern) ==
    SubSeq(pattern, IF AnchoredAtStart(pattern) THEN 2 ELSE 1,
           IF AnchoredAtEnd(pattern) THEN Len(pattern) - 1 ELSE Len(pattern))

\* { $regex: pattern, $options: "i" } on the text s, for a pattern made of
\* letters, digits and blanks (which stand for themselves), of "." (any
\* character) and of the anchors ^ and $: the pattern matches somewhere in
\* the text, letters being compared without their case
RegexMatchI(pattern, s) ==
    LET core == ToLowerCase(RegexCore(pattern))
        text == ToLowerCase(s)
        n == Len(core)
    IN  \E i \in 1..(Len(text) - n + 1) :
           /\ AnchoredAtStart(pattern) => i = 1
           /\ AnchoredAtEnd(pattern) => i + n - 1 = Len(text)
           /\ \A k \in 1..n : core[k] = "." \/ core[k] = text[i + k - 1]

\* the query parameter f is given and not empty
Given(query, f) == Has(query, f) /\ query[f] # <<>>

\* the filter listItems builds from search and category
ItemMatches(d, query) ==
    /\ Given(query, "search") =>
          \/ RegexMatchI(query.search, d.itemName)
          \/ RegexMatchI(query.search, d.description)
    /\ Given(query, "category") => RegexMatchI(query.category, d.category)

\* the filter listProducts builds from tag (q needs a text index, which
\* ProductSchema does not declare; requests with q are not modelled)
ProductMatches(d, query) ==
    Given(query, "tag") => query.tag \in Range(d.tags)

MatchingItems(its, query) == {d \in its : ItemMatches(d, query)}
MatchingProducts(ps, query) == {d \in ps : ProductMatches(d, query)}

\* sort({ createdAt: -1 }): every order of the documents in which createdAt
\* never increases; the store leaves the order of equal stamps open, and
\* each query may see another one
RECURSIVE Orderings(_)
Orderings(S) ==
    IF S = {} THEN {<<>>}
    ELSE UNION {{<<d>> \o r : r \in Orderings(S \ {d})} :
                d \in {x \in S : \A y \in S : y.createdAt <= x.createdAt}}

\* find(filter).skip(skip).limit(limit).sort({createdAt: -1}) on the matching
\* documents S, skip >= 0: the pages the store may hand back.  A negative
\* limit is taken by its absolute value.
FindPage(S, skip, limit) ==
    LET n == Min(IF limit < 0 THEN 0 - limit ELSE limit, Max(Cardinality(S) - skip, 0))
    IN  {SubSeq(o, skip + 1, skip + n) : o \in Orderings(S)}

\* faulty variant: the quotient is rounded down
ListMetaFloor(total, pageNum, limitNum) ==
    LET pages == IF limitNum > 0 THEN total \div limitNum
                 ELSE 0 - (total \div (0 - limitNum))
    IN  [total |-> total, page |-> pageNum, limit |-> limitNum,
         totalPages |-> pages, hasNextPage |-> pageNum < pages,
         hasPrevPage |-> pageNum > 1]

\* the meta object of a list response; Math.ceil(total / limitNum) for
\* total >= 0 and limitNum # 0
ListMeta(total, pageNum, limitNum) ==
    LET pages == IF limitNum > 0 THEN (total + limitNum - 1) \div limitNum
                 ELSE 0 - (total \div (0 - limitNum))
    IN  [total |-> total, page |-> pageNum, limit |-> limitNum,
         totalPages |-> pages, hasNextPage |-> pageNum < pages,
         hasPrevPage |-> pageNum > 1]

\* res.json({ data, meta })
ListOutcome(docs, total, pageNum, limitNum, store) ==
    Outcome(200, "", "", 2,
            <<[data |-> docs, meta |-> ListMeta(total, pageNum, limitNum)]>>, store)

(***************************************************************************)
(* Inventory statistics: getStats.                                         *)
(***************************************************************************)
LowStockThreshold == 10

\* every order of the documents of S: find({}) and $group promise none
RECURSIVE NaturalOrders(_)
NaturalOrders(S) ==
    IF S = {} THEN {<<>>}
    ELSE UNION {{<<d>> \o r : r \in NaturalOrders(S \ {d})} : d \in S}

\* items.reduce((sum, item) => sum + (item.price * item.quantity), 0)
RECURSIVE TotalValue(_)
TotalValue(docs) ==
    IF docs = <<>> THEN Double(<<>>, 0)
    ELSE DoubleAdd(TotalValue(SubSeq(docs, 1, Len(docs) - 1)),
                   DoubleMul(DoubleOf(docs[Len(docs)].price),
                             DoubleOf(docs[Len(docs)].quantity)))

\* countDocuments({ quantity: { $lt: lowStockThreshold } })
LowStockCount(its) ==
    Cardinality({d \in its : d.quantity < Num(LowStockThreshold, 0)})

\* distinct("category")
DistinctCategories(its) == {d.category : d \in its}

\* the documents $group puts under _id c
CategoryGroup(its, c) == {d \in its : d.category = c}

\* aggregate([{ $group }, { $sort: { count: -1 } }]) mapped to
\* { category, count, totalValue }: every sequence the store may hand back,
\* one entry for each category, the counts never increasing; the sums are
\* taken in any order and entries of equal count come in any order
CategoryBreakdowns(its) ==
    LET cats == DistinctCategories(its)
        Sums(c) == {TotalValue(o) : o \in NaturalOrders(CategoryGroup(its, c))}
        Entry(c, v) == [category |-> c, count |-> Cardinality(CategoryGroup(its, c)),
                        totalValue |-> v]
        entries == {Entry(c, v) : c \in cats, v \in UNION {Sums(x) : x \in cats}}
    IN  {b \in [1..Cardinality(cats) -> entries] :
            /\ \A i \in DOMAIN b : b[i].totalValue \in Sums(b[i].category)
            /\ \A i, j \in DOMAIN b : i < j =>
                  b[i].category # b[j].category /\ b[i].count >= b[j].count}

\* res.json({ totalItems, totalValue, lowStockCount, lowStockThreshold,
\* categoryCount, categories }); the numbers are in thousandths
StatsOutcome(totalItems, totalValue, lowStockCount, categoryCount, categories, store) ==
    Outcome(200, "", "", 5,
            <<[totalItems |-> totalItems,
               totalValue |-> RoundTo2Decimals(totalValue),
               lowStockCount |-> lowStockCount,
               lowStockThreshold |-> LowStockThreshold,
               categoryCount |-> categoryCount,
               categories |-> categories]>>, store)

(***************************************************************************)
(* The sample items of the item seed script.                               *)
(***************************************************************************)
SampleLaptop ==
    [itemName |-> <<"L","a","p","t","o","p"," ","C","o","m","p","u","t","e","r">>,
     quantity |-> Num(15, 0), price |-> Num(1299, 990),
     description |->
        <<"H","i","g","h","-","p","e","r","f","o","r","m","a","n","c","e",
          " ","l","a","p","t","o","p"," ","w","i","t","h"," ","1","6","G",
          "B"," ","R","A","M"," ","a","n","d"," ","5","1","2","G","B"," ",
          "S","S","D">>,
     category |-> <<"E","l","e","c","t","r","o","n","i","c","s">>]

SampleChair ==
    [itemName |-> <<"O","f","f","i","c","e"," ","C","h","a","i","r">>,
     quantity |-> Num(25, 0), price |-> Num(299, 990),
     description |->
        <<"E","r","g","o","n","o","m","i","c"," ","o","f","f","i","c","e",
          " ","c","h","a","i","r"," ","w","i","t","h"," ","a","d","j","u",
          "s","t","a","b","l","e"," ","h","e","i","g","h","t"," ","a","n",
          "d"," ","l","u","m","b","a","r"," ","s","u","p","p","o","r","t">>,
     category |-> <<"F","u","r","n","i","t","u","r","e">>]

SampleMouse ==
    [itemName |-> <<"W","i","r","e","l","e","s","s"," ","M","o","u","s","e">>,
     quantity |-> Num(50, 0), price |-> Num(29, 990),
     description |->
        <<"E","r","g","o","n","o","m","i","c"," ","w","i","r","e","l","e",
          "s","s"," ","m","o","u","s","e"," ","w","i","t","h"," ","l","o",
          "n","g"," ","b","a","t","t","e","r","y"," ","l","i","f","e">>,
     category |-> <<"E","l","e","c","t","r","o","n","i","c","s">>]

SampleLamp ==
    [itemName |-> <<"D","e","s","k"," ","L","a","m","p">>,
     quantity |-> Num(30, 0), price |-> Num(45, 990),
     description |->
        <<"L","E","D"," ","d","e","s","k"," ","l","a","m","p"," ","w","i",
          "t","h"," ","a","d","j","u","s","t","a","b","l","e"," ","b","r",
          "i","g","h","t","n","e","s","s"," ","a","n","d"," ","c","o","l",
          "o","r"," ","t","e","m","p","e","r","a","t","u","r","e">>,
     category |-> <<"F","u","r","n","i","t","u","r","e">>]

SampleNotebooks ==
    [itemName |-> <<"N","o","t","e","b","o","o","k"," ","S","e","t">>,
     quantity |-> Num(100, 0), price |-> Num(12, 990),
     description |->
        <<"S","e","t"," ","o","f"," ","3"," ","r","u","l","e","d"," ","n",
          "o","t","e","b","o","o","k","s",","," ","2","0","0"," ","p","a",
          "g","e","s"," ","e","a","c","h">>,
     category |-> <<"S","t","a","t","i","o","n","e","r","y">>]

SampleItems == <<SampleLaptop, SampleChair, SampleMouse, SampleLamp, SampleNotebooks>>

\* the stamps initializeTimestamps gives the documents of one insertMany,
\* one after the other: the clock readings from t on never go back
Stamps(n, t, tmax) ==
    {st \in [1..n -> t..tmax] : \A i \in 1..(n - 1) : st[i] <= st[i + 1]}

(***************************************************************************)
(* Requests the clients send.                                              *)
(***************************************************************************)
Str3 == <<"P","e","n">>
Str5 == <<"a","b","c","d","e">>
Str2 == <<"A","B">>
TestProductName == <<"T","e","s","t"," ","P","r","o","d","u","c","t">>
ToolsCategory == <<"T","o","o","l","s">>

\* a valid create body, and the body with quantity -5 as its only fault
ValidItemBody ==
    [itemName |-> Str3, quantity |-> Num(5, 0), price |-> Num(9, 990),
     description |-> Str5, category |-> ToolsCategory]
NegativeQuantityBody ==
    [itemName |-> TestProductName, quantity |-> Num(-5, 0), price |-> Num(9, 990),
     description |-> Str5, category |-> Str2]
CreateBodies == {ValidItemBody, NegativeQuantityBody}
UpdateBodies == {[quantity |-> Num(20, 0)], [price |-> Num(-1, 0)]}

ValidProductBody == [name |-> Str3, price |-> Num(100, 0)]
ProductCreateBodies == {ValidProductBody, [name |-> Str3, price |-> Num(-1, 0)]}
ProductUpdateBodies == {[price |-> Num(150, 0)], [price |-> Num(-10, 0)]}

InvalidId == <<"i","n","v","a","l","i","d","-","i","d">>
Hex23 == [i \in 1..23 |-> "0"]
Hex25 == [i \in 1..25 |-> "0"]
NonHex24 == [i \in 1..24 |-> IF i = 1 THEN "g" ELSE "0"]
MalformedIds == {InvalidId, Hex23, Hex25, NonHex24}
\* the first id of a collection in both letter cases, an id no document
\* ever gets, and the malformed ids
IdInputs(c, C) == {MkId(c, 0), MkId(C, 0), MkId(c, 9)} \cup MalformedIds

\* tokens a client can make up from a token it was issued, without the
\* server's secret: a re-signed copy, a copy with the expiry pushed out, a
\* copy declared unsigned
ForgedFrom(tok) ==
    {[tok EXCEPT !.sig = Mac(AttackerSecret, tok.alg, tok.payload)],
     [tok EXCEPT !.payload.exp = tok.payload.exp + TokenTTL],
     [tok EXCEPT !.alg = "none"]}

SelfMadeAdminToken == JwtSign(MkId("c", 0), "admin", AttackerSecret, 0)

\* every token a client may present, given the tokens toks it was issued
TokensFrom(toks) ==
    toks \cup UNION {ForgedFrom(tok) : tok \in toks}
         \cup {GarbageToken, EmptyToken, SelfMadeAdminToken}

LowerBearerPrefix == <<"b","e","a","r","e","r"," ">>
BasicPrefix == <<"B","a","s","i","c"," ">>
BearerNoSpace == <<"B","e","a","r","e","r">>
BearerTwoSpaces == <<"B","e","a","r","e","r"," "," ">>
\* texts in front of the token that do not start with "Bearer "
NonBearerPrefixes == {<<>>, LowerBearerPrefix, BasicPrefix, BearerNoSpace}

\* every Authorization header a client may send, given the tokens it holds
HeadersFrom(toks) ==
    {NoHeader}
    \cup {Header(p, tok) : p \in NonBearerPrefixes \cup {BearerPrefix, BearerTwoSpaces},
                           tok \in TokensFrom(toks)}

\* the headers the requests of the state machine carry
RequestHeaders ==
    {NoHeader, Bearer(SelfMadeAdminToken), Bearer(GarbageToken)}
    \cup {Bearer(tok) : tok \in issued}
    \cup {Header(BasicPrefix, tok) : tok \in issued}

\* the product routes take no notice of the header
ProductHeaders == {NoHeader} \cup {Bearer(tok) : tok \in issued}

LoginEmails == {AdminEmail, AdminEmailCaps, UserEmail, NobodyEmail, NotAnEmail}
LoginPasswords == {"AdminPass123!", "UserPass123!", "wrong", ""}
LoginBody(email, password) == [email |-> email, password |-> password]
\* the login requests of the state machine
LoginBodies ==
    {LoginBody(AdminEmail, "AdminPass123!"), LoginBody(AdminEmailCaps, "AdminPass123!"),
     LoginBody(UserEmail, "UserPass123!"), LoginBody(AdminEmail, "wrong"),
     LoginBody(NobodyEmail, "wrong"), LoginBody(NotAnEmail, "wrong"),
     LoginBody(UserEmail, "")}

(***************************************************************************)
(* The state machine of the server.                                        *)
(***************************************************************************)
NoListing == [active |-> FALSE]
NoWalk == [active |-> FALSE]

MkResp(op, hdr, id, body, called, user, o) ==
    [op |-> op, hdr |-> hdr, id |-> id, body |-> body, at |-> now,
     status |-> o.status, error |-> o.error, message |-> o.message,
     called |-> called, user |-> user, storeOps |-> o.storeOps,
     data |-> o.data, token |-> <<>>]

NoResp ==
    [op |-> "none", hdr |-> NoHeader, id |-> <<>>, body |-> <<>>, at |-> 0,
     status |-> 0, error |-> "", message |-> "", called |-> FALSE,
     user |-> NoUser, storeOps |-> 0, data |-> <<>>, token |-> <<>>]

\* the ItemList page is not open
NoUi == [open |-> FALSE]

Init ==
    /\ jwtSecret \in {ServerSecret, NoSecret}
    /\ now = 0
    /\ users = {}
    /\ items = {}
    /\ products = {}
    /\ nextItemId = 0
    /\ nextProdId = 0
    /\ issued = {}
    /\ resp = NoResp
    /\ listing = NoListing
    /\ seeding = FALSE
    /\ walk = NoWalk
    /\ ui = NoUi

\* time passes and no request is handled; the clock is looked at on the
\* last day of every token lifetime and on the day after it
Tick ==
    /\ now' = now + (IF now % TokenTTL = 0 THEN TokenTTL - 1 ELSE 1)
    /\ now' <= MaxTime
    /\ resp' = NoResp
    /\ UNCHANGED <<ui, jwtSecret, users, items, products, nextItemId, nextProdId,
                   issued, listing, seeding, walk>>

\* seedUsers() runs (at start-up in development mode, or by hand), bcrypt
\* drawing its salts from salts.  The script answers no request: what is
\* recorded of it is its name and the number of its store operations, a
\* findOne for each demo user and a create for each one it did not find
SeedUsers(salts) ==
    /\ \E s1 \in salts, s2 \in salts :
         LET after == SeedUsersResult(users, s1, s2)
         IN  /\ users' = after
             /\ resp' = MkResp("seedUsers", NoHeader, <<>>, <<>>, FALSE, NoUser,
                               Outcome(0, "", "",
                                       Len(DemoUsers) + Cardinality(after \ users),
                                       <<>>, {}))
    /\ UNCHANGED <<ui, jwtSecret, now, items, products, nextItemId, nextProdId,
                   issued, listing, seeding, walk>>

\* POST /api/auth/login; the client keeps the token it is given, or goes on
\* with the one it holds
Login(bodies) ==
    /\ \E body \in bodies :
         LET o == LoginOutcome(users, jwtSecret, now, body.email, body.password)
         IN  /\ resp' = [NoResp EXCEPT !.op = "POST /auth/login", !.at = now,
                            !.body = body,
                            !.status = o.status, !.error = o.error,
                            !.called = TRUE, !.token = o.token]
             /\ issued' \in IF o.token = <<>> THEN {issued}
                            ELSE IF issued = {} THEN {{o.token[1]}}
                            ELSE {issued, {o.token[1]}}
    /\ UNCHANGED <<ui, jwtSecret, now, users, items, products, nextItemId,
                   nextProdId, listing, seeding, walk>>

\* the bound on the documents created in one run is not reached
HasRoom == nextItemId + nextProdId < MaxDocs

\* the response of a request that requireAuth ended
Rejected(a, store) == Outcome(a.status, a.error, a.message, 0, <<>>, store)

\* a route of the items router, on the side of the server: requireAuth()
\* first when it is protected, then the controller, whose outcome is o; room
\* bounds the creations
ItemRouteServed(op, protected, hdr, id, body, o, room) ==
    LET a == IF protected THEN RequireAuth(NoRole, hdr, jwtSecret, now)
             ELSE AuthResult(TRUE, 0, "", "", NoUser)
    IN  /\ items' = IF a.next THEN o.store ELSE items
        /\ resp' = MkResp(op, hdr, id, body, a.next, a.user,
                          IF a.next THEN o ELSE Rejected(a, items))
        /\ nextItemId' = IF a.next /\ o.status = 201 THEN nextItemId + 1 ELSE nextItemId
        /\ a.next /\ o.status = 201 => room
        /\ walk' = IF items' = items THEN walk ELSE NoWalk
        /\ UNCHANGED <<jwtSecret, now, users, products, nextProdId, issued,
                       listing, seeding>>

\* a route of the items router, asked by a client that is not the page
ItemRoute(op, protected, hdr, id, body, o, room) ==
    ItemRouteServed(op, protected, hdr, id, body, o, room) /\ UNCHANGED ui

\* POST /api/items
PostItem(headers, bodies, room) ==
    \E hdr \in headers, body \in bodies :
        ItemRoute("POST /items", TRUE, hdr, <<>>, body,
                  CreateItem(items, nextItemId, body, now), room)

\* GET /api/items/:id
GetItemById(ids) ==
    \E id \in ids :
        ItemRoute("GET /items/:id", FALSE, NoHeader, id, <<>>, GetItem(items, id), TRUE)

\* PUT /api/items/:id
PutItem(headers, ids, bodies) ==
    \E hdr \in headers, id \in ids, body \in bodies :
        ItemRoute("PUT /items/:id", TRUE, hdr, id, body,
                  UpdateItem(items, id, body, now), TRUE)

\* DELETE /api/items/:id
DeleteItemById(headers, ids) ==
    \E hdr \in headers, id \in ids :
        ItemRoute("DELETE /items/:id", TRUE, hdr, id, <<>>, DeleteItem(items, id), TRUE)

\* a route of the products router: no middleware in front of the controller
ProductRoute(op, hdr, id, body, o, room) ==
    /\ products' = o.store
    /\ resp' = MkResp(op, hdr, id, body, TRUE, NoUser, o)
    /\ nextProdId' = IF o.status = 201 THEN nextProdId + 1 ELSE nextProdId
    /\ o.status = 201 => room
    /\ walk' = NoWalk
    /\ UNCHANGED <<ui, jwtSecret, now, users, items, nextItemId, issued, listing, seeding>>

\* POST /api/products
PostProduct(headers, bodies, room) ==
    \E hdr \in headers, body \in bodies :
        ProductRoute("POST /products", hdr, <<>>, body,
                     CreateProduct(products, nextProdId, body, now), room)

\* GET /api/products/:id
GetProductById(ids) ==
    \E id \in ids :
        ProductRoute("GET /products/:id", NoHeader, id, <<>>, GetProduct(products, id), TRUE)

\* PUT /api/products/:id
PutProduct(headers, ids, bodies) ==
    \E hdr \in headers, id \in ids, body \in bodies :
        ProductRoute("PUT /products/:id", hdr, id, body,
                     UpdateProduct(products, id, body, now), TRUE)

\* DELETE /api/products/:id
DeleteProductById(headers, ids) ==
    \E hdr \in headers, id \in ids :
        ProductRoute("DELETE /products/:id", hdr, id, <<>>, DeleteProduct(products, id), TRUE)

(***************************************************************************)
(* The list handlers.  Each awaits the find and then the count, so other   *)
(* requests can be served between the two.                                 *)
(***************************************************************************)
\* what identifies one listing across its pages
WalkKey(query, limitNum) ==
    [limit |-> limitNum,
     search |-> IF Given(query, "search") THEN query.search ELSE <<>>,
     category |-> IF Given(query, "category") THEN query.category ELSE <<>>]

\* the walk after page pageNum of the listing key was found to hold docs
WalkAfter(w, key, pageNum, docs) ==
    IF w.active /\ w.key = key /\ pageNum = Len(w.pages) + 1
    THEN [w EXCEPT !.pages = Append(@, docs)]
    ELSE IF pageNum = 1
    THEN [active |-> TRUE, key |-> key, pages |-> <<docs>>]
    ELSE NoWalk

\* GET /api/items, up to the find.  MongoDB refuses a negative skip; a
\* request that asks for one is not followed.  With the page, the number of
\* documents that matched when the find ran is kept (the handler does not
\* have it: the properties compare it with the count that follows).
ListItemsFind(queries) ==
    /\ ~listing.active
    /\ \E query \in queries :
         LET limitNum == LimitNum(query, <<"1","0">>, 10)
             pageNum == PageNum(query)
             skip == (pageNum - 1) * limitNum
         IN  /\ skip >= 0
             /\ \E docs \in FindPage(MatchingItems(items, query), skip, limitNum) :
                  /\ listing' = [active |-> TRUE, op |-> "GET /items", query |-> query,
                                 page |-> pageNum, limit |-> limitNum, data |-> docs,
                                 matched |-> Cardinality(MatchingItems(items, query))]
                  /\ walk' = WalkAfter(walk, WalkKey(query, limitNum), pageNum, docs)
    /\ resp' = NoResp
    /\ UNCHANGED <<ui, jwtSecret, now, users, items, products, nextItemId, nextProdId,
                   issued, seeding>>

\* GET /api/items, from the count to the response
ListItemsCount ==
    /\ listing.active
    /\ listing.op = "GET /items"
    /\ resp' = MkResp("GET /items", NoHeader, <<>>, listing.query, TRUE, NoUser,
                      ListOutcome(listing.data,
                                  Cardinality(MatchingItems(items, listing.query)),
                                  listing.page, listing.limit, items))
    /\ listing' = NoListing
    /\ UNCHANGED <<ui, jwtSecret, now, users, items, products, nextItemId, nextProdId,
                   issued, seeding, walk>>

\* GET /api/products, up to the find
ListProductsFind(queries) ==
    /\ ~listing.active
    /\ \E query \in queries :
         LET limitNum == LimitNum(query, <<"2","0">>, 20)
             pageNum == PageNum(query)
             skip == (pageNum - 1) * limitNum
         IN  /\ skip >= 0
             /\ \E docs \in FindPage(MatchingProducts(products, query), skip, limitNum) :
                  listing' = [active |-> TRUE, op |-> "GET /products", query |-> query,
                              page |-> pageNum, limit |-> limitNum, data |-> docs,
                              matched |-> Cardinality(MatchingProducts(products, query))]
    /\ resp' = NoResp
    /\ walk' = NoWalk
    /\ UNCHANGED <<ui, jwtSecret, now, users, items, products, nextItemId, nextProdId,
                   issued, seeding>>

\* GET /api/products, from the count to the response
ListProductsCount ==
    /\ listing.active
    /\ listing.op = "GET /products"
    /\ resp' = MkResp("GET /products", NoHeader, <<>>, listing.query, TRUE, NoUser,
                      ListOutcome(listing.data,
                                  Cardinality(MatchingProducts(products, listing.query)),
                                  listing.page, listing.limit, products))
    /\ listing' = NoListing
    /\ UNCHANGED <<ui, jwtSecret, now, users, items, products, nextItemId, nextProdId,
                   issued, seeding, walk>>

(***************************************************************************)
(* The categories and the description generator.                           *)
(***************************************************************************)
\* the place of a character in the order of its code: blank, digits,
\* capitals, small letters
CodeOrder == <<" ">> \o DigitChars \o UpperChars \o LowerChars
CodeOf(c) == CHOOSE i \in DOMAIN CodeOrder : CodeOrder[i] = c

\* a comes before b in the order Array.prototype.sort() gives strings
StringLess(a, b) ==
    \/ Len(a) < Len(b) /\ SubSeq(b, 1, Len(a)) = a
    \/ \E i \in 1..Min(Len(a), Len(b)) :
          /\ SubSeq(a, 1, i - 1) = SubSeq(b, 1, i - 1)
          /\ CodeOf(a[i]) < CodeOf(b[i])

\* S in sorted order
RECURSIVE Sorted(_)
Sorted(S) ==
    IF S = {} THEN <<>>
    ELSE LET least == CHOOSE a \in S : \A b \in S \ {a} : StringLess(a, b)
         IN  <<least>> \o Sorted(S \ {least})

\* getCategories(req, res): distinct("category"), sorted
GetCategoriesOutcome(its) ==
    Outcome(200, "", "", 1, <<[categories |-> Sorted(DistinctCategories(its))]>>, its)

\* values of a JSON body whose type the handler asks for
JsonString(s) == [type |-> "string", text |-> s, num |-> 0]
JsonNumber(n) == [type |-> "number", text |-> <<>>, num |-> n]

\* !v for a field of the body: absent, "" and 0 are falsy
Falsy(body, f) ==
    \/ ~Has(body, f)
    \/ body[f].type = "string" /\ body[f].text = <<>>
    \/ body[f].type = "number" /\ body[f].num = 0

\* the number of templates generateItemDescription chooses from
TemplateCount == 4

\* generateItemDescription(itemName, category), Math.random() having chosen
\* the template pick
GenerateItemDescription(itemName, category, pick) ==
    [template |-> pick, itemName |-> itemName, category |-> category]

\* generateDescription(req, res)
GenerateDescription(body, pick, store) ==
    IF Falsy(body, "itemName") \/ Falsy(body, "category")
    THEN Outcome(400, "itemName and category are required", "", 0, <<>>, store)
    ELSE IF body.itemName.type # "string" \/ body.category.type # "string"
    THEN Outcome(400, "itemName and category must be strings", "", 0, <<>>, store)
    ELSE Outcome(200, "", "", 0,
                 <<[description |->
                      GenerateItemDescription(body.itemName.text, body.category.text, pick)]>>,
                 store)

(***************************************************************************)
(* The statistics handler.  It awaits five queries one after the other,    *)
(* and other requests can be served between any two of them.               *)
(***************************************************************************)
StatsStep(n) == listing.active /\ listing.op = "GET /items/stats" /\ listing.step = n

StatsGoesOn ==
    /\ resp' = NoResp
    /\ UNCHANGED <<ui, jwtSecret, now, users, items, products, nextItemId, nextProdId,
                   issued, seeding, walk>>

\* GET /api/items/stats, up to countDocuments()
GetStatsCount ==
    /\ ~listing.active
    /\ listing' = [active |-> TRUE, op |-> "GET /items/stats", step |-> 1,
                   totalItems |-> Cardinality(items), totalValue |-> Double(<<>>, 0),
                   lowStockCount |-> 0, categoryCount |-> 0]
    /\ StatsGoesOn

\* ... find({}) and the sum over what it found
GetStatsFind ==
    /\ StatsStep(1)
    /\ \E docs \in NaturalOrders(items) :
         listing' = [listing EXCEPT !.step = 2, !.totalValue = TotalValue(docs)]
    /\ StatsGoesOn

\* ... countDocuments({ quantity: { $lt: 10 } })
GetStatsLowStock ==
    /\ StatsStep(2)
    /\ listing' = [listing EXCEPT !.step = 3, !.lowStockCount = LowStockCount(items)]
    /\ StatsGoesOn

\* ... distinct("category")
GetStatsDistinct ==
    /\ StatsStep(3)
    /\ listing' = [listing EXCEPT !.step = 4,
                      !.categoryCount = Cardinality(DistinctCategories(items))]
    /\ StatsGoesOn

\* ... aggregate([...]) and the response
GetStatsAggregate ==
    /\ StatsStep(4)
    /\ \E categories \in CategoryBreakdowns(items) :
         resp' = MkResp("GET /items/stats", NoHeader, <<>>, <<>>, TRUE, NoUser,
                        StatsOutcome(listing.totalItems, listing.totalValue,
                                     listing.lowStockCount, listing.categoryCount,
                                     categories, items))
    /\ listing' = NoListing
    /\ UNCHANGED <<ui, jwtSecret, now, users, items, products, nextItemId, nextProdId,
                   issued, seeding, walk>>

\* GET /api/items/categories
GetCategories ==
    /\ resp' = MkResp("GET /items/categories", NoHeader, <<>>, <<>>, TRUE, NoUser,
                      GetCategoriesOutcome(items))
    /\ UNCHANGED <<ui, jwtSecret, now, users, items, products, nextItemId, nextProdId,
                   issued, listing, seeding, walk>>

\* POST /api/items/generate-description
PostGenerateDescription(bodies) ==
    /\ \E body \in bodies, pick \in 1..TemplateCount :
         resp' = MkResp("POST /items/generate-description", NoHeader, <<>>, body,
                        TRUE, NoUser, GenerateDescription(body, pick, items))
    /\ UNCHANGED <<ui, jwtSecret, now, users, items, products, nextItemId, nextProdId,
                   issued, listing, seeding, walk>>

(***************************************************************************)
(* The item seed script: deleteMany({}), then insertMany(sampleItems).     *)
(***************************************************************************)
SeedItemsClear ==
    /\ ~seeding
    /\ nextItemId < MaxSeedRuns * Len(SampleItems)
    /\ items' = {}
    /\ seeding' = TRUE
    /\ walk' = NoWalk
    /\ resp' = NoResp
    /\ UNCHANGED <<ui, jwtSecret, now, users, products, nextItemId, nextProdId, issued,
                   listing>>

SeedItemsInsert ==
    /\ seeding
    /\ \E st \in Stamps(Len(SampleItems), now, MaxListTime) :
         /\ items' = items \cup
                {NewItem(nextItemId + i - 1, CastItemFields(SampleItems[i]), st[i]) :
                    i \in DOMAIN SampleItems}
         /\ now' = st[Len(SampleItems)]
    /\ nextItemId' = nextItemId + Len(SampleItems)
    /\ seeding' = FALSE
    /\ walk' = NoWalk
    /\ resp' = NoResp
    /\ UNCHANGED <<ui, jwtSecret, users, products, nextProdId, issued, listing>>

(***************************************************************************)
(* Spec: authentication in front of the write routes.  Logins, the seeder, *)
(* the clock, and item and product writes with every kind of header.       *)
(***************************************************************************)
AuthSeed == SeedUsers({"salt1"})
AuthLogin == Login(LoginBodies)
AuthPostItem == PostItem(RequestHeaders, {ValidItemBody}, HasRoom)
AuthPutItem == PutItem(RequestHeaders, {MkId("a", 0)}, {[quantity |-> Num(20, 0)]})
AuthDeleteItem == DeleteItemById(RequestHeaders, {MkId("a", 0)})
AuthPostProduct == PostProduct(ProductHeaders, {ValidProductBody}, HasRoom)
AuthPutProduct == PutProduct(ProductHeaders, {MkId("b", 0)}, {[price |-> Num(150, 0)]})
AuthDeleteProduct == DeleteProductById(ProductHeaders, {MkId("b", 0)})

Next ==
    \/ Tick
    \/ AuthSeed
    \/ AuthLogin
    \/ AuthPostItem
    \/ AuthPutItem
    \/ AuthDeleteItem
    \/ AuthPostProduct
    \/ AuthPutProduct
    \/ AuthDeleteProduct

Spec == Init /\ [][Next]_vars

(***************************************************************************)
(* SpecGuard: a route behind requireAuth(role), for each value of role.    *)
(* No router of the repository passes a role; the middleware is exercised  *)
(* with a handler that answers 200 and touches no store.                   *)
(***************************************************************************)
GuardRoles == {NoRole, "user", "admin"}

GuardOp(role) ==
    IF role = "admin" THEN "requireAuth(admin)"
    ELSE IF role = "user" THEN "requireAuth(user)"
    ELSE "requireAuth()"

GuardedRoute(role, headers) ==
    /\ \E hdr \in headers :
         LET a == RequireAuth(role, hdr, jwtSecret, now)
         IN  resp' = MkResp(GuardOp(role), hdr, <<>>, <<>>, a.next, a.user,
                            IF a.next THEN Outcome(200, "", "", 0, <<>>, {})
                            ELSE Rejected(a, {}))
    /\ UNCHANGED <<ui, jwtSecret, now, users, items, products, nextItemId, nextProdId,
                   issued, listing, seeding, walk>>

GuardSeed == SeedUsers(Salts)
GuardLogin == Login(LoginBodies)
GuardAnyRole == GuardedRoute(NoRole, RequestHeaders)
GuardUserRole == GuardedRoute("user", RequestHeaders)
GuardAdminRole == GuardedRoute("admin", RequestHeaders)

NextGuard ==
    \/ Tick
    \/ GuardSeed
    \/ GuardLogin
    \/ GuardAnyRole
    \/ GuardUserRole
    \/ GuardAdminRole

SpecGuard == Init /\ [][NextGuard]_vars

(***************************************************************************)
(* SpecCrud: the item and product controllers with every kind of id and    *)
(* body; item writes are sent with the token of a login.                   *)
(***************************************************************************)
HeldToken == {Bearer(tok) : tok \in issued}

CrudSeed == SeedUsers({"salt1"})
CrudLogin == Login({LoginBody(AdminEmail, "AdminPass123!")})
CrudPostItem == PostItem(HeldToken, CreateBodies, HasRoom)
CrudGetItem == GetItemById(IdInputs("a", "A"))
CrudPutItem == PutItem(HeldToken, IdInputs("a", "A"), UpdateBodies)
CrudDeleteItem == DeleteItemById(HeldToken, IdInputs("a", "A"))
CrudPostProduct == PostProduct({NoHeader}, ProductCreateBodies, HasRoom)
CrudGetProduct == GetProductById(IdInputs("b", "B"))
CrudPutProduct == PutProduct({NoHeader}, IdInputs("b", "B"), ProductUpdateBodies)
CrudDeleteProduct == DeleteProductById({NoHeader}, IdInputs("b", "B"))

NextCrud ==
    \/ CrudSeed
    \/ CrudLogin
    \/ CrudPostItem
    \/ CrudGetItem
    \/ CrudPutItem
    \/ CrudDeleteItem
    \/ CrudPostProduct
    \/ CrudGetProduct
    \/ CrudPutProduct
    \/ CrudDeleteProduct

SpecCrud == Init /\ [][NextCrud]_vars

(***************************************************************************)
(* SpecList: the listings while the seed script fills the item store and   *)
(* products are created and deleted.  The clock counts milliseconds and is *)
(* seen to advance while insertMany stamps its documents.                  *)
(***************************************************************************)
Text1 == <<"1">>
Text2 == <<"2">>
Text3 == <<"3">>
Text4 == <<"4">>
TextZero == <<"0">>
TextMinus2 == <<"-","2">>
TextAbc == <<"a","b","c">>
Text2px == <<"2","p","x">>
Text200 == <<"2","0","0">>
FurnitureLower == <<"f","u","r","n","i","t","u","r","e">>
\* a part of a category, and a pattern: "furn" and "^.u"
TextFurn == <<"f","u","r","n">>
PatternSecondU == <<"^",".","u">>

ItemQueries ==
    {[page |-> pg, limit |-> Text2] : pg \in {Text1, Text3, Text4}}
    \cup {[category |-> FurnitureLower, limit |-> Text1],
          [category |-> FurnitureLower, limit |-> Text1, page |-> Text2],
          [category |-> FurnitureLower, limit |-> Text1, page |-> Text3],
          [category |-> TextFurn], [category |-> PatternSecondU],
          [limit |-> TextMinus2]}

TagNew == <<"n","e","w">>
TaggedProductBody == [name |-> Str3, price |-> Num(100, 0), tags |-> <<TagNew>>]

ProductQueries ==
    {[page |-> Text1, limit |-> Text1], [page |-> Text2, limit |-> Text1]}

ListItems == ListItemsFind(ItemQueries)
ListProducts == ListProductsFind(ProductQueries)
ListPostProduct ==
    PostProduct({NoHeader}, {ValidProductBody}, nextProdId < MaxListProducts)
ListDeleteProduct == DeleteProductById({NoHeader}, {MkId("b", 0)})

NextList ==
    \/ SeedItemsClear
    \/ SeedItemsInsert
    \/ ListItems
    \/ ListItemsCount
    \/ ListProducts
    \/ ListProductsCount
    \/ ListPostProduct
    \/ ListDeleteProduct

\* the server runs with its secret set; nothing is stored yet
InitList == Init /\ jwtSecret = ServerSecret

SpecList == InitList /\ [][NextList]_vars

(***************************************************************************)
(* SpecStats: the statistics while items are created with the token of a   *)
(* login.                                                                  *)
(***************************************************************************)
MaxStatsItems == 3

ElectronicsCategory == <<"E","l","e","c","t","r","o","n","i","c","s">>

\* five units at 0.255 of the category Tools, and ten units at 9.99 of the
\* category Electronics
OddPriceBody ==
    [itemName |-> Str3, quantity |-> Num(5, 0), price |-> Num(0, 255),
     description |-> Str5, category |-> ToolsCategory]
TenUnitsBody ==
    [itemName |-> TestProductName, quantity |-> Num(10, 0), price |-> Num(9, 990),
     description |-> Str5, category |-> ElectronicsCategory]

StatsSeed == SeedUsers({"salt1"})
StatsLogin == Login({LoginBody(UserEmail, "UserPass123!")})
StatsPostItem ==
    PostItem(HeldToken, {OddPriceBody, TenUnitsBody}, nextItemId < MaxStatsItems)

NextStats ==
    \/ StatsSeed
    \/ StatsLogin
    \/ StatsPostItem
    \/ GetStatsCount
    \/ GetStatsFind
    \/ GetStatsLowStock
    \/ GetStatsDistinct
    \/ GetStatsAggregate

SpecStats == InitList /\ [][NextStats]_vars

(***************************************************************************)
(* SpecItems: the item API used by a client that has logged in: creates,   *)
(* among them bodies with several faults, blank-padded text and a name     *)
(* already taken, reads, updates of some of the fields and deletes, while  *)
(* the clock, which counts milliseconds, may or may not have advanced      *)
(* between two requests.                                                   *)
(***************************************************************************)
MaxItems == 2
MaxItemsTime == 1

PaddedName == <<" ","A">>
BlankText == <<" "," "," "," "," ">>

\* valid but for the blanks that ItemSchema trims off the name
PaddedNameBody ==
    [itemName |-> PaddedName, quantity |-> Num(5, 0), price |-> Num(9, 990),
     description |-> Str5, category |-> ToolsCategory]
\* an empty name, quantity -2.5, an infinite price, no description and a
\* category of one character
ManyFaultsBody ==
    [itemName |-> <<>>, quantity |-> Num(-2, -500), price |-> Infinity,
     category |-> <<"A">>]
\* a description of five blanks
BlankDescriptionBody ==
    [itemName |-> Str3, quantity |-> Num(5, 0), price |-> Num(9, 990),
     description |-> BlankText, category |-> ToolsCategory]

ItemCreateBodies ==
    {ValidItemBody, PaddedNameBody, NegativeQuantityBody, ManyFaultsBody,
     BlankDescriptionBody}

\* updates of a part of the fields; the body {} has no field
ItemUpdateBodies ==
    {<<>>, [quantity |-> Num(20, 0)], [itemName |-> PaddedName],
     [price |-> Num(-1, 0)], [description |-> BlankText]}

\* the first item created and an id that no item gets
ItemIds == {MkId("a", 0), MkId("a", 9)}

\* a millisecond passes and no request is handled
TickMs ==
    /\ now < MaxItemsTime
    /\ now' = now + 1
    /\ resp' = NoResp
    /\ UNCHANGED <<ui, jwtSecret, users, items, products, nextItemId, nextProdId,
                   issued, listing, seeding, walk>>

ItemsPost == PostItem(HeldToken, ItemCreateBodies, nextItemId < MaxItems)
ItemsGet == GetItemById(ItemIds)
ItemsPut == PutItem(HeldToken, ItemIds, ItemUpdateBodies)
ItemsDelete == DeleteItemById(HeldToken, ItemIds)

NextItems ==
    \/ TickMs
    \/ ItemsPost
    \/ ItemsGet
    \/ ItemsPut
    \/ ItemsDelete

\* the users are seeded and the client holds the token of a login of the
\* demo user
InitItems ==
    /\ jwtSecret = ServerSecret
    /\ now = 0
    /\ users = SeedUsersResult({}, "salt1", "salt2")
    /\ issued = {LoginOutcome(users, jwtSecret, now, UserEmail, "UserPass123!").token[1]}
    /\ items = {}
    /\ products = {}
    /\ nextItemId = 0
    /\ nextProdId = 0
    /\ resp = NoResp
    /\ listing = NoListing
    /\ seeding = FALSE
    /\ walk = NoWalk
    /\ ui = NoUi

SpecItems == InitItems /\ [][NextItems]_vars

(***************************************************************************)
(* The client: the api module, the auth service, and the ItemList page.    *)
(* The token that localStorage holds is issued.                            *)
(***************************************************************************)
\* the Authorization header of a request that the api module sends while
\* localStorage holds the tokens of stored: request() sets Content-Type and
\* what its caller passes, the callers pass method and body, and deleteItem
\* calls fetch with the method alone
ApiAuthorization(stored) == NoHeader

\* what awaiting api.deleteItem(id) gives: fetch resolves with the response
\* whatever its status, and rejects when the server cannot be reached
ApiDeleteItem(reached, status, error) ==
    IF reached THEN [thrown |-> FALSE, message |-> ""]
    ELSE [thrown |-> TRUE, message |-> "Failed to fetch"]

Notification(severity, text, detail) ==
    [severity |-> severity, text |-> text, detail |-> detail]
NoNotification == Notification("none", "", "")

\* the notification handleDelete shows after awaiting api.deleteItem
HandleDeleteNotification(awaited) ==
    IF awaited.thrown
    THEN Notification("error", "Error deleting item: ", awaited.message)
    ELSE Notification("success", "Item deleted successfully", "")

\* String(page) for a page of one digit
StringOfDigit(n) == <<DigitChars[n + 1]>>

\* the query string api.listItems(search, category, page, 10) builds:
\* a parameter is appended when its value is truthy
ListItemsQuery(search, category, page) ==
    LET given == (IF search # <<>> THEN {"search"} ELSE {})
                 \cup (IF category # <<>> THEN {"category"} ELSE {})
                 \cup (IF page # 0 THEN {"page"} ELSE {})
                 \cup {"limit"}
    IN  [f \in given |-> IF f = "search" THEN search
                         ELSE IF f = "category" THEN category
                         ELSE IF f = "page" THEN StringOfDigit(page)
                         ELSE <<"1","0">>]

\* the request loadItems sends for the selection of the page
LoadItemsQuery(page) ==
    ListItemsQuery(Trim(page.searchQuery), page.selectedCategory, page.currentPage)

\* the page after loadItems was called: one more list request is on its way
LoadItems(page) ==
    [page EXCEPT !.loads = @ + 1,
                 !.inflight = @ \cup {[seq |-> page.loads + 1,
                                       query |-> LoadItemsQuery(page),
                                       response |-> <<>>]}]

\* the ItemList page as it is mounted: nothing shown, the first loadItems
\* called by the effect
MountedItemList ==
    LoadItems([open |-> TRUE, notification |-> NoNotification,
               searchQuery |-> <<>>, selectedCategory |-> <<>>, currentPage |-> 1,
               items |-> <<>>, pagination |-> <<>>,
               inflight |-> {}, loads |-> 0])

\* auth.login(email, password): the token of a successful login is put in
\* localStorage
ClientLogin(bodies) ==
    /\ \E body \in bodies :
         LET o == LoginOutcome(users, jwtSecret, now, body.email, body.password)
         IN  /\ resp' = [NoResp EXCEPT !.op = "POST /auth/login", !.at = now,
                            !.body = body,
                            !.status = o.status, !.error = o.error,
                            !.called = TRUE, !.token = o.token]
             /\ issued' = IF o.token = <<>> THEN issued ELSE {o.token[1]}
    /\ UNCHANGED <<jwtSecret, now, users, items, products, nextItemId,
                   nextProdId, listing, seeding, walk, ui>>

\* ItemForm.handleSubmit for a new item: the button is enabled while a token
\* is stored; api.createItem(payload)
ClientCreateItem(bodies, room) ==
    /\ issued # {}
    /\ PostItem({ApiAuthorization(issued)}, bodies, room)

\* ItemForm.handleSubmit for the item id: api.updateItem(id, payload)
ClientUpdateItem(ids, bodies) ==
    /\ issued # {}
    /\ PutItem({ApiAuthorization(issued)}, ids, bodies)

\* the ids of the items the page shows
ShownIds(page) == {page.items[i].id : i \in DOMAIN page.items}

\* ItemList.handleDelete(id), the user having confirmed: the button of a
\* shown item is enabled while a token is stored; api.deleteItem(id) is
\* awaited, then the notification is shown and loadItems called
HandleDelete(maxLoads) ==
    /\ ui.open
    /\ issued # {}
    /\ ui.loads < maxLoads
    /\ \E id \in ShownIds(ui), reached \in BOOLEAN :
         /\ IF reached
            THEN ItemRouteServed("DELETE /items/:id", TRUE, ApiAuthorization(issued),
                                 id, <<>>, DeleteItem(items, id), TRUE)
            ELSE /\ resp' = NoResp
                 /\ UNCHANGED <<jwtSecret, now, users, items, products, nextItemId,
                                nextProdId, issued, listing, seeding, walk>>
         /\ LET awaited == ApiDeleteItem(reached, resp'.status, resp'.error)
                shown == [ui EXCEPT !.notification = HandleDeleteNotification(awaited)]
            IN  ui' = IF awaited.thrown THEN shown ELSE LoadItems(shown)

\* what changes on the page and nowhere else
PageOnly ==
    /\ resp' = NoResp
    /\ UNCHANGED <<jwtSecret, now, users, items, products, nextItemId, nextProdId,
                   issued, listing, seeding, walk>>

\* handleSearchChange(value) for another value than the one in the field:
\* the page is set to 1 and the effect calls loadItems
HandleSearchChange(values, maxLoads) ==
    /\ ui.open
    /\ ui.loads < maxLoads
    /\ \E value \in values \ {ui.searchQuery} :
         ui' = LoadItems([ui EXCEPT !.searchQuery = value, !.currentPage = 1])
    /\ PageOnly

\* handleCategoryChange(category) for another category than the selected
\* one, out of the categories of the menu
HandleCategoryChange(maxLoads) ==
    /\ ui.open
    /\ ui.loads < maxLoads
    /\ \E category \in (DistinctCategories(items) \cup {<<>>}) \ {ui.selectedCategory} :
         ui' = LoadItems([ui EXCEPT !.selectedCategory = category, !.currentPage = 1])
    /\ PageOnly

\* handlePageChange(event, page): the control is shown when the pagination
\* has more than one page, and offers the pages it has
HandlePageChange(maxLoads) ==
    /\ ui.open
    /\ ui.loads < maxLoads
    /\ ui.pagination # <<>>
    /\ ui.pagination[1].totalPages > 1
    /\ \E page \in (1..ui.pagination[1].totalPages) \ {ui.currentPage} :
         ui' = LoadItems([ui EXCEPT !.currentPage = page])
    /\ PageOnly

\* the server answers a list request of the page (GET /api/items), the
\* find and the count following each other
ServeListRequest ==
    /\ ui.open
    /\ ~listing.active
    /\ \E r \in {q \in ui.inflight : q.response = <<>>} :
         LET limitNum == LimitNum(r.query, <<"1","0">>, 10)
             pageNum == PageNum(r.query)
             matching == MatchingItems(items, r.query)
         IN  \E docs \in FindPage(matching, (pageNum - 1) * limitNum, limitNum) :
                LET o == ListOutcome(docs, Cardinality(matching), pageNum, limitNum, items)
                IN  /\ resp' = MkResp("GET /items", NoHeader, <<>>, r.query, TRUE, NoUser, o)
                    /\ ui' = [ui EXCEPT !.inflight =
                                 (@ \ {r}) \cup {[r EXCEPT !.response = o.data]}]
    /\ UNCHANGED <<jwtSecret, now, users, items, products, nextItemId, nextProdId,
                   issued, listing, seeding, walk>>

\* a list response reaches the page: loadItems goes on after its await with
\* setItems(response.data) and setPagination(response.meta)
ReceiveListResponse ==
    /\ ui.open
    /\ \E r \in {q \in ui.inflight : q.response # <<>>} :
         ui' = [ui EXCEPT !.items = r.response[1].data,
                          !.pagination = <<r.response[1].meta>>,
                          !.inflight = @ \ {r}]
    /\ PageOnly

(***************************************************************************)
(* SpecClient: a browser with the ItemList page open on a store of eleven  *)
(* items, one more than a page of the list holds.  The user logs in,       *)
(* submits the item form, and searches, filters, pages and deletes on the  *)
(* list, while the list requests are answered and their responses arrive   *)
(* in any order.                                                           *)
(***************************************************************************)
MaxLoads == 3
ClientItemCount == 11
InkName == <<"I","n","k">>
OfficeCategory == <<"O","f","f","i","c","e">>

\* the n-th item of the store, created at the time n + 1
ClientItem(n) ==
    NewItem(n, [itemName |-> IF n = 0 THEN InkName ELSE Str3,
                quantity |-> Num(20, 0), price |-> Num(1, 500),
                description |-> Str5,
                category |-> IF n = 0 THEN OfficeCategory ELSE ToolsCategory],
            n + 1)

InitClient ==
    /\ jwtSecret = ServerSecret
    /\ now = ClientItemCount + 1
    /\ users = SeedUsersResult({}, "salt1", "salt2")
    /\ issued = {}
    /\ items = {ClientItem(n) : n \in 0..(ClientItemCount - 1)}
    /\ products = {}
    /\ nextItemId = ClientItemCount
    /\ nextProdId = 0
    /\ resp = NoResp
    /\ listing = NoListing
    /\ seeding = FALSE
    /\ walk = NoWalk
    /\ ui = MountedItemList

ClientLoginStep ==
    ClientLogin({LoginBody(UserEmail, "UserPass123!"), LoginBody(UserEmail, "wrong")})
ClientCreateStep == ClientCreateItem({ValidItemBody}, TRUE)
ClientUpdateStep == ClientUpdateItem({MkId("a", 0)}, {[quantity |-> Num(20, 0)]})
ClientDeleteStep == HandleDelete(MaxLoads)
ClientSearchStep == HandleSearchChange({<<>>, Str3}, MaxLoads)
ClientCategoryStep == HandleCategoryChange(MaxLoads)
ClientPageStep == HandlePageChange(MaxLoads)

NextClient ==
    \/ ClientLoginStep
    \/ ClientCreateStep
    \/ ClientUpdateStep
    \/ ClientDeleteStep
    \/ ClientSearchStep
    \/ ClientCategoryStep
    \/ ClientPageStep
    \/ ServeListRequest
    \/ ReceiveListResponse

SpecClient == InitClient /\ [][NextClient]_vars

(***************************************************************************)
(* SpecFrame: every endpoint of the API, the writes with and without a     *)
(* token and with good and bad ids and bodies, the reads between them.     *)
(***************************************************************************)
MaxFrameItems == 1
MaxFrameProducts == 1

FrameHeaders == {NoHeader} \cup HeldToken
FrameItemIds == {MkId("a", 0), MkId("a", 9), InvalidId}
FrameProductIds == {MkId("b", 0), MkId("b", 9), InvalidId}
FrameItemBodies == {ValidItemBody, BlankDescriptionBody}
FrameItemUpdates == {[quantity |-> Num(20, 0)], [description |-> BlankText]}
FrameProductBodies == {ValidProductBody, [name |-> Str3, price |-> Num(-1, 0)]}
FrameProductUpdates == {[price |-> Num(-10, 0)]}
DescriptionBodies ==
    {[itemName |-> JsonString(Str3), category |-> JsonString(ToolsCategory)],
     [itemName |-> JsonString(Str3)],
     [itemName |-> JsonNumber(5), category |-> JsonString(ToolsCategory)]}

FrameLogin ==
    Login({LoginBody(UserEmail, "UserPass123!"), LoginBody(UserEmail, "wrong")})
FramePostItem == PostItem(FrameHeaders, FrameItemBodies, nextItemId < MaxFrameItems)
FrameGetItem == GetItemById(FrameItemIds)
FramePutItem == PutItem(FrameHeaders, FrameItemIds, FrameItemUpdates)
FrameDeleteItem == DeleteItemById(FrameHeaders, FrameItemIds)
FramePostProduct ==
    PostProduct({NoHeader}, FrameProductBodies, nextProdId < MaxFrameProducts)
FrameGetProduct == GetProductById(FrameProductIds)
FramePutProduct == PutProduct({NoHeader}, FrameProductIds, FrameProductUpdates)
FrameDeleteProduct == DeleteProductById({NoHeader}, FrameProductIds)
FrameListItems == ListItemsFind({[limit |-> Text1]})
FrameListProducts == ListProductsFind({[limit |-> Text1]})
FrameGenerateDescription == PostGenerateDescription(DescriptionBodies)

NextFrame ==
    \/ FrameLogin
    \/ FramePostItem
    \/ FrameGetItem
    \/ FramePutItem
    \/ FrameDeleteItem
    \/ FramePostProduct
    \/ FrameGetProduct
    \/ FramePutProduct
    \/ FrameDeleteProduct
    \/ FrameListItems
    \/ ListItemsCount
    \/ FrameListProducts
    \/ ListProductsCount
    \/ GetStatsCount
    \/ GetStatsFind
    \/ GetStatsLowStock
    \/ GetStatsDistinct
    \/ GetStatsAggregate
    \/ GetCategories
    \/ FrameGenerateDescription

SpecFrame == InitItems /\ [][NextFrame]_vars

(***************************************************************************)
(* Properties of the authentication layer (checked under Spec).            *)
(***************************************************************************)
ProtectedOps == {"POST /items", "PUT /items/:id", "DELETE /items/:id"}

\* the header is absent or does not start with "Bearer "
NotBearer(hdr) == ~hdr.present \/ ~StartsWith(hdr.text, BearerPrefix)

\* the token of the header is one the server signed, and nothing but the
\* token follows "Bearer "
SignedByServer(hdr) ==
    /\ hdr.text = BearerPrefix
    /\ hdr.token.kind = "jwt"
    /\ hdr.token.alg = "HS256"
    /\ hdr.token.sig = Mac(jwtSecret, "HS256", hdr.token.payload)

\* the request carries a token that is valid at time t
CarriesValidToken(hdr, t) ==
    /\ jwtSecret # NoSecret
    /\ hdr.present
    /\ SignedByServer(hdr)
    /\ t < hdr.token.payload.exp

\* C1: a request to a protected route whose Authorization header is absent
\* or does not start with "Bearer " is answered 401, the controller is not
\* called and the item store is left as it was; and requireAuth() answers
\* so for every such header a client can build.
C1_NoBearerRejected ==
    /\ [](\A hdr \in HeadersFrom(issued) :
            NotBearer(hdr) =>
                LET a == RequireAuth(NoRole, hdr, jwtSecret, now)
                IN  a.status = 401 /\ ~a.next /\ a.user = NoUser)
    /\ [][(resp'.op \in ProtectedOps /\ NotBearer(resp'.hdr)) =>
            (resp'.status = 401 /\ ~resp'.called /\ resp'.storeOps = 0
             /\ items' = items)]_vars

\* a DELETE of a stored item with "Basic <valid token>" was answered 401
C1_Witness ==
    /\ resp.op = "DELETE /items/:id"
    /\ resp.hdr.present
    /\ resp.hdr.text = BasicPrefix
    /\ resp.hdr.token \in issued
    /\ now < resp.hdr.token.payload.exp
    /\ FindById(items, resp.id) # {}
    /\ resp.status = 401

\* what C2 asks of the outcome of requireAuth for a header that starts with
\* "Bearer ": "Token expired" for a server-signed token past its expiry,
\* "Invalid token" for a token that fails structure or signature checks
C2_Holds(hdr, t, status, message, called, user) ==
    /\ (SignedByServer(hdr) /\ t >= hdr.token.payload.exp) =>
          (status = 401 /\ message = "Token expired" /\ ~called /\ user = NoUser)
    /\ ~SignedByServer(hdr) =>
          (status = 401 /\ message = "Invalid token" /\ ~called /\ user = NoUser)

\* C2: with the signing secret configured, a Bearer token that has expired is
\* answered 401 "Token expired", one that fails signature or structure
\* verification 401 "Invalid token"; no identity is attached and the
\* controller is not called.
C2_ExpiredAndInvalidTokens ==
    jwtSecret # NoSecret =>
        /\ \A hdr \in HeadersFrom(issued) :
              ~NotBearer(hdr) =>
                  LET a == RequireAuth(NoRole, hdr, jwtSecret, now)
                  IN  C2_Holds(hdr, now, a.status, a.message, a.next, a.user)
        /\ (resp.op \in ProtectedOps /\ ~NotBearer(resp.hdr)) =>
              C2_Holds(resp.hdr, resp.at, resp.status, resp.message,
                       resp.called, resp.user)

\* a request with the token of a login, made after its expiry, was answered
\* 401 "Token expired"
C2_Witness ==
    /\ resp.op \in ProtectedOps
    /\ resp.hdr.token \in issued
    /\ resp.status = 401
    /\ resp.message = "Token expired"

\* the password is not the one of the demo account with this address
WrongPassword(email, password) ==
    \A i \in DOMAIN DemoUsers :
        ~(DemoUsers[i].email = ToLowerCase(email) /\ DemoUsers[i].password = password)

InvalidCredentials(status, error, token) ==
    status = 401 /\ error = "Invalid credentials" /\ token = <<>>

\* C4: a login with a registered address and a wrong password and a login
\* with an address of no user get the same response: status 401, error
\* "Invalid credentials", no token and no user.
C4_SameAnswerForUnknownAndWrong ==
    /\ \A e \in LoginEmails, p \in LoginPasswords :
          (/\ IsEmail(e) /\ p # ""
           /\ \/ FindUserByEmail(users, ToLowerCase(e)) = {}
              \/ WrongPassword(e, p))
          => LET o == LoginOutcome(users, jwtSecret, now, e, p)
             IN  InvalidCredentials(o.status, o.error, o.token) /\ o.user = NoUser
    /\ (/\ resp.op = "POST /auth/login"
        /\ IsEmail(resp.body.email) /\ resp.body.password # ""
        /\ \/ FindUserByEmail(users, ToLowerCase(resp.body.email)) = {}
           \/ WrongPassword(resp.body.email, resp.body.password))
       => InvalidCredentials(resp.status, resp.error, resp.token)

\* the admin account exists and a login to it with a wrong password was
\* answered 401 while another address is still unknown to the store
C4_Witness ==
    /\ resp.op = "POST /auth/login"
    /\ resp.body.email = AdminEmail
    /\ FindUserByEmail(users, AdminEmail) # {}
    /\ FindUserByEmail(users, NobodyEmail) = {}
    /\ resp.status = 401

\* C5: the token of a login expires seven days after it was issued; until
\* then requireAuth lets it through on every protected request, whatever
\* the stores hold and whichever logins, seedings and writes came in
\* between, and from then on it answers 401.
C5_TokenValidUntilExpiry ==
    /\ \A tok \in issued :
          LET a == RequireAuth(NoRole, Bearer(tok), jwtSecret, now)
              expiry == tok.payload.iat + TokenTTL
          IN  /\ tok.payload.exp = expiry
              /\ now < expiry => a.next
              /\ now >= expiry => (~a.next /\ a.status = 401)
    /\ (resp.op \in ProtectedOps /\ resp.hdr.text = BearerPrefix /\ resp.hdr.token \in issued)
       => LET expiry == resp.hdr.token.payload.iat + TokenTTL
          IN  /\ resp.at < expiry => resp.called
              /\ resp.at >= expiry => (~resp.called /\ resp.status = 401)

\* on the last day of its life a token issued on day 0 deleted an item
C5_Witness ==
    /\ resp.op = "DELETE /items/:id"
    /\ resp.status = 204
    /\ resp.hdr.token \in issued
    /\ resp.hdr.token.payload.iat = 0
    /\ resp.at = TokenTTL - 1

\* C6 (as the API tests have it): an item write sent with no Authorization
\* header succeeds: POST of a valid body 201, PUT of a stored item 200,
\* DELETE 204 with the item gone afterwards.
C6_WritesWithoutHeaderSucceed ==
    (resp.op \in ProtectedOps /\ ~resp.hdr.present) =>
        /\ (resp.op = "POST /items" /\ CreateItemIssues(resp.body) = <<>>)
              => resp.status = 201
        /\ (resp.op = "PUT /items/:id" /\ FindById(items, resp.id) # {}
            /\ UpdateItemIssues(resp.body) = <<>>)
              => resp.status = 200
        /\ resp.op = "DELETE /items/:id" => FindById(items, resp.id) = {}

\* C7 (as the submission notes have it): a request that carries no valid
\* token changes neither the item store nor the product store.
C7_WritesNeedValidToken ==
    [][~CarriesValidToken(resp'.hdr, now') =>
          (items' = items /\ products' = products)]_vars

(***************************************************************************)
(* Property of the role guard (checked under SpecGuard).                   *)
(***************************************************************************)
\* what C3 asks of requireAuth(role) for a request with a valid token whose
\* payload names tokenRole
C3_Holds(role, tokenRole, status, error, called) ==
    /\ (role = "admin" /\ tokenRole # "admin") =>
          (status = 403 /\ error = "Forbidden" /\ ~called)
    /\ (role = "admin" /\ tokenRole = "admin") => called
    /\ role = NoRole => called

\* C3: with a valid token, requireAuth("admin") answers 403 unless the
\* token's role is admin, and then it proceeds; requireAuth() proceeds for
\* a token of any role.
C3_RoleGuard ==
    /\ \A role \in GuardRoles, tok \in issued :
          CarriesValidToken(Bearer(tok), now) =>
              LET a == RequireAuth(role, Bearer(tok), jwtSecret, now)
              IN  C3_Holds(role, tok.payload.role, a.status, a.error, a.next)
    /\ \A role \in GuardRoles :
          (resp.op = GuardOp(role) /\ CarriesValidToken(resp.hdr, resp.at)) =>
              /\ C3_Holds(role, resp.hdr.token.payload.role, resp.status,
                          resp.error, resp.called)
              /\ resp.called => resp.user.role = resp.hdr.token.payload.role

\* the valid token of the demo user was refused by requireAuth("admin")
C3_Witness ==
    /\ resp.op = GuardOp("admin")
    /\ CarriesValidToken(resp.hdr, resp.at)
    /\ resp.hdr.token \in issued
    /\ resp.hdr.token.payload.role = "user"
    /\ resp.status = 403

(***************************************************************************)
(* Property of the id checks (checked under SpecCrud).                     *)
(***************************************************************************)
ItemByIdOps == {"GET /items/:id", "PUT /items/:id", "DELETE /items/:id"}
ProductByIdOps == {"GET /products/:id", "PUT /products/:id", "DELETE /products/:id"}

\* the body of an update passes the validation of its controller
UpdateBodyValid(op, body) ==
    IF op = "PUT /items/:id"
    THEN UpdateItemIssues(body) = <<>> /\ ItemSchemaValid(CastItemFields(body))
    ELSE IF op = "PUT /products/:id"
    THEN UpdateProductIssues(body) = <<>> /\ ProductSchemaValid(CastProductFields(body))
    ELSE TRUE

\* a by-id request r that reached its controller, on the collection that
\* held before and holds after: a malformed id is answered 400 with the
\* id message and without a store operation; a well-formed id of no
\* document is answered 404, for every body when anyBody is set and for a
\* body that passes validation otherwise
IdChecked(r, before, after, idError, anyBody) ==
    r.called =>
        /\ ~IsObjectIdFormat(r.id) =>
              (r.status = 400 /\ r.error = idError /\ r.storeOps = 0 /\ after = before)
        /\ (/\ IsObjectIdFormat(r.id)
            /\ FindById(before, r.id) = {}
            /\ anyBody \/ UpdateBodyValid(r.op, r.body))
           => (r.status = 404 /\ after = before)

\* C8 (amended): getById, update and delete of items and products answer
\* 400 to an id that is not 24 hexadecimal characters, without a store
\* operation and, for update, whatever the body; to a well-formed id of
\* no stored record getById and delete answer 404, and update answers 404
\* when its body passes validation.
C8_IdChecks ==
    [][/\ resp'.op \in ItemByIdOps =>
            IdChecked(resp', items, items', "Invalid item ID format", FALSE)
       /\ resp'.op \in ProductByIdOps =>
            IdChecked(resp', products, products', "Invalid product ID format", FALSE)]_vars

\* C8 (as stated): the same, but a well-formed id of no stored record is
\* answered 404 by update for every body.
C8_AsStated ==
    [][/\ resp'.op \in ItemByIdOps =>
            IdChecked(resp', items, items', "Invalid item ID format", TRUE)
       /\ resp'.op \in ProductByIdOps =>
            IdChecked(resp', products, products', "Invalid product ID format", TRUE)]_vars

\* an authenticated update of an item with a 25-character id and a negative
\* price was answered with the id error while an item is stored
C8_Witness ==
    /\ resp.op = "PUT /items/:id"
    /\ resp.called
    /\ resp.id = Hex25
    /\ UpdateItemIssues(resp.body) # <<>>
    /\ items # {}
    /\ resp.status = 400
    /\ resp.error = "Invalid item ID format"

(***************************************************************************)
(* Properties of the listings (checked under SpecList).                    *)
(***************************************************************************)
PageTexts == {Text1, Text2, Text3, Text4, TextZero, TextMinus2, TextAbc, Text2px, <<>>}
LimitTexts == {Text1, Text2, Text3, TextZero, TextMinus2, TextAbc, Text2px, Text200, <<>>}

\* k = ceil(t / l), said without a division
IsCeilOf(k, t, l) ==
    IF l > 0 THEN k * l >= t /\ (k - 1) * l < t
    ELSE k * l <= t /\ (k - 1) * l > t

\* the meta object m is the one C9 describes for total matching documents
MetaHolds(m, total) ==
    /\ m.total = total
    /\ IsCeilOf(m.totalPages, m.total, m.limit)
    /\ m.hasNextPage = (m.page < m.totalPages)
    /\ m.hasPrevPage = (m.page > 1)

\* C9: every list response of items and products has totalPages =
\* ceil(total / limit), hasNextPage = (page < totalPages) and hasPrevPage =
\* (page > 1), total being the number of all documents that match the
\* filter; with 5 items, page=1 and limit=2 and no write during the request
\* the meta is {5, 1, 2, 3, true, false} and 2 items are returned.  The
\* meta of the same total obeys the formulas for every page and limit
\* text a client can send.
C9_ListMeta ==
    /\ resp.op = "GET /items" =>
          /\ MetaHolds(resp.data[1].meta,
                       Cardinality(MatchingItems(items, resp.body)))
          /\ (/\ Cardinality(items) = 5
              /\ resp.body = [page |-> Text1, limit |-> Text2]
              /\ walk.active)
             => /\ resp.data[1].meta =
                      [total |-> 5, page |-> 1, limit |-> 2, totalPages |-> 3,
                       hasNextPage |-> TRUE, hasPrevPage |-> FALSE]
                /\ Len(resp.data[1].data) = 2
    /\ resp.op = "GET /products" =>
          MetaHolds(resp.data[1].meta,
                    Cardinality(MatchingProducts(products, resp.body)))
    /\ resp.op \in {"GET /items", "GET /products"} =>
          \A pg \in PageTexts, lm \in LimitTexts :
             LET query == [page |-> pg, limit |-> lm]
                 t == resp.data[1].meta.total
             IN  /\ MetaHolds(ListMeta(t, PageNum(query), LimitNum(query, <<"1","0">>, 10)), t)
                 /\ MetaHolds(ListMeta(t, PageNum(query), LimitNum(query, <<"2","0">>, 20)), t)

\* the first page of two of the five seeded items came back with total 5
\* and three pages
C9_Witness ==
    /\ resp.op = "GET /items"
    /\ Cardinality(items) = 5
    /\ resp.data[1].meta.total = 5
    /\ resp.data[1].meta.totalPages = 3
    /\ resp.data[1].meta.hasNextPage
    /\ Len(resp.data[1].data) = 2

RECURSIVE Concat(_)
Concat(pp) == IF pp = <<>> THEN <<>> ELSE Head(pp) \o Concat(Tail(pp))

\* C10 (as stated): the pages 1, 2, ... of one item listing, found one
\* after the other with no other request in between, have L items each
\* before the last page, N mod L (or L) on the last and none beyond it;
\* no item comes twice, the concatenation runs from the most recently
\* created item to the oldest, and once the last page is in, every
\* matching item has come.
C10_PagesPartition ==
    (walk.active /\ walk.key.limit > 0) =>
        LET L == walk.key.limit
            S == MatchingItems(items, [search |-> walk.key.search,
                                       category |-> walk.key.category])
            N == Cardinality(S)
            last == CHOOSE k \in 0..N : IsCeilOf(k, N, L)
            all == Concat(walk.pages)
        IN  /\ \A p \in DOMAIN walk.pages :
                  Len(walk.pages[p]) =
                      IF p < last THEN L
                      ELSE IF p > last THEN 0
                      ELSE IF N % L = 0 THEN L ELSE N % L
            /\ \A i, j \in DOMAIN all : i < j => all[i].id # all[j].id
            /\ \A i, j \in DOMAIN all : i < j => all[i].createdAt >= all[j].createdAt
            /\ Len(walk.pages) >= last => {all[i] : i \in DOMAIN all} = S

(***************************************************************************)
(* Properties of the statistics (checked under SpecStats).                 *)
(***************************************************************************)
\* the sum of price x quantity over the documents of its, in thousandths
RECURSIVE ExactTotal(_)
ExactTotal(its) ==
    IF its = {} THEN 0
    ELSE LET d == CHOOSE x \in its : TRUE
         IN  (d.price * d.quantity) \div 1000 + ExactTotal(its \ {d})

\* x thousandths rounded to two decimals, a half going up
HalfUpTo2Decimals(x) == ((x + 5) \div 10) * 10

\* C11 (as stated): the totalValue of a stats response is the sum of price x
\* quantity over the items stored when the handler read them, rounded to 2
\* decimals, and its lowStockCount is the number of the items stored when
\* the handler counted them whose quantity is below 10, an item of quantity
\* 10 not being counted.
C11_StatsTotals ==
    [][/\ (StatsStep(1) /\ listing'.step = 2) =>
             RoundTo2Decimals(listing'.totalValue) = HalfUpTo2Decimals(ExactTotal(items))
       /\ (StatsStep(2) /\ listing'.step = 3) =>
             listing'.lowStockCount =
                 Cardinality({d \in items : d.quantity \div 1000 < 10})
       /\ (StatsStep(4) /\ resp'.op = "GET /items/stats") =>
             /\ resp'.data[1].totalValue = RoundTo2Decimals(listing.totalValue)
             /\ resp'.data[1].lowStockCount = listing.lowStockCount]_vars

RECURSIVE SumOfCounts(_)
SumOfCounts(cs) == IF cs = <<>> THEN 0 ELSE Head(cs).count + SumOfCounts(Tail(cs))

\* C12 (as stated): the category breakdown of every stats response has one
\* entry for each category of a stored item, its counts sum to totalItems,
\* and no entry has a larger count than the one before it.
C12_Breakdown ==
    resp.op = "GET /items/stats" =>
        LET cs == resp.data[1].categories
        IN  /\ Len(cs) = Cardinality(DistinctCategories(items))
            /\ {cs[i].category : i \in DOMAIN cs} = DistinctCategories(items)
            /\ SumOfCounts(cs) = resp.data[1].totalItems
            /\ \A i, j \in DOMAIN cs : i < j => cs[i].count >= cs[j].count

(***************************************************************************)
(* Properties of the item API (checked under SpecItems).                   *)
(***************************************************************************)
\* the five business fields of the document d are present and within the
\* bounds of the data model
WithinBounds(d) ==
    /\ ItemFields \subseteq DOMAIN d
    /\ Len(d.itemName) >= 2 /\ Len(d.itemName) <= 100
    /\ d.quantity >= 0 /\ d.quantity % 1000 = 0
    /\ d.price >= 0 /\ d.price # Infinity
    /\ Len(d.description) >= 5 /\ Len(d.description) <= 500
    /\ Len(d.category) >= 2 /\ Len(d.category) <= 50

\* C13 (as stated): whatever creates and updates the item API has served,
\* every stored item has its five business fields, each within its bounds.
C13_StoredItemsWithinBounds == \A d \in items : WithinBounds(d)

\* the one document of the store with the id
TheItem(its, id) == CHOOSE d \in its : d.id = ToLowerCase(id)

\* C14 (as stated): an item update that succeeds sets the supplied fields
\* and leaves every other field, the id and createdAt of the item as they
\* were, leaves every other item alone, and makes updatedAt strictly
\* greater than it was.
C14_UpdateFrame ==
    [][(resp'.op = "PUT /items/:id" /\ resp'.status = 200) =>
          LET old == TheItem(items, resp'.id)
              new == TheItem(items', resp'.id)
          IN  /\ \A f \in ItemFields \ DOMAIN resp'.body : new[f] = old[f]
              /\ \A f \in DOMAIN resp'.body \cap {"quantity", "price"} :
                    new[f] = resp'.body[f]
              /\ \A f \in DOMAIN resp'.body \cap ItemStringFields :
                    new[f] = Trim(resp'.body[f])
              /\ new.id = old.id
              /\ new.createdAt = old.createdAt
              /\ items' \ {new} = items \ {old}
              /\ new.updatedAt > old.updatedAt]_vars

\* what C15 asks of a create that succeeded with the body and returned doc,
\* the store being before and after: a getById of the returned id finds the
\* record, whose text fields are the input's (with the blanks around them
\* removed, when trimmed is set) and whose numbers are the input's; the id
\* is the id of no item stored before, and the two stamps are equal
CreatedThenFound(body, doc, before, after, trimmed) ==
    LET got == GetItem(after, doc.id)
    IN  /\ got.status = 200
        /\ got.data = <<doc>>
        /\ \A f \in ItemStringFields :
              doc[f] = IF trimmed THEN Trim(body[f]) ELSE body[f]
        /\ doc.quantity = body.quantity /\ doc.price = body.price
        /\ \A d \in before : d.id # doc.id
        /\ doc.createdAt = doc.updatedAt

TextConstraints ==
    {[path |-> "itemName", kind |-> "min", bound |-> 1,
      message |-> "Item name is required"],
     [path |-> "itemName", kind |-> "min", bound |-> 2,
      message |-> "Item name must be at least 2 characters"],
     [path |-> "itemName", kind |-> "max", bound |-> 100,
      message |-> "Item name must not exceed 100 characters"],
     [path |-> "description", kind |-> "min", bound |-> 1,
      message |-> "Description is required"],
     [path |-> "description", kind |-> "min", bound |-> 5,
      message |-> "Description must be at least 5 characters"],
     [path |-> "description", kind |-> "max", bound |-> 500,
      message |-> "Description must not exceed 500 characters"],
     [path |-> "category", kind |-> "min", bound |-> 1,
      message |-> "Category is required"],
     [path |-> "category", kind |-> "min", bound |-> 2,
      message |-> "Category must be at least 2 characters"],
     [path |-> "category", kind |-> "max", bound |-> 50,
      message |-> "Category must not exceed 50 characters"]}

\* the constraints on the numbers
NumberConstraints ==
    {[path |-> "quantity", kind |-> "int", bound |-> 0,
      message |-> "Quantity must be an integer"],
     [path |-> "quantity", kind |-> "nonnegative", bound |-> 0,
      message |-> "Quantity cannot be negative"],
     [path |-> "price", kind |-> "nonnegative", bound |-> 0,
      message |-> "Price cannot be negative"],
     [path |-> "price", kind |-> "finite", bound |-> 0,
      message |-> "Price must be a valid number"]}

\* that a field must be there
PresenceConstraints ==
    {[path |-> f, kind |-> "present", bound |-> 0, message |-> "Required"] :
        f \in ItemFields}

\* the body violates the constraint c; a constraint on the value of a field
\* that is not there is not violated
Violates(body, c) ==
    IF c.kind = "present" THEN c.path \notin DOMAIN body
    ELSE /\ c.path \in DOMAIN body
         /\ CASE c.kind = "min" -> Len(body[c.path]) < c.bound
              [] c.kind = "max" -> Len(body[c.path]) > c.bound
              [] c.kind = "int" -> body[c.path] % 1000 # 0
              [] c.kind = "nonnegative" -> body[c.path] < 0
              [] c.kind = "finite" -> body[c.path] = Infinity

ViolatedConstraints(body) ==
    {c \in TextConstraints \cup NumberConstraints \cup PresenceConstraints :
        Violates(body, c)}

\* C16: a create body that violates a constraint of the create schema is
\* answered 400 "Validation failed" with details that hold one entry for
\* every violated constraint and none for a satisfied one, and nothing is
\* stored; the body whose only fault is quantity -5, with a description of 5
\* and a category of 2 characters, gets the one entry "Quantity cannot be
\* negative".
C16_AllFailuresReported ==
    (resp.op = "POST /items" /\ resp.called) =>
        /\ ViolatedConstraints(resp.body) # {} =>
              /\ resp.status = 400
              /\ resp.error = "Validation failed"
              /\ resp.storeOps = 0
              /\ Len(resp.data) = Cardinality(ViolatedConstraints(resp.body))
              /\ {[path |-> c.path, message |-> c.message] :
                     c \in ViolatedConstraints(resp.body)}
                 = {resp.data[i] : i \in DOMAIN resp.data}
        /\ resp.body = NegativeQuantityBody =>
              /\ resp.status = 400
              /\ resp.data = <<[path |-> "quantity",
                                message |-> "Quantity cannot be negative"]>>

\* the body with five faulty fields was answered with seven entries
C16_Witness ==
    /\ resp.op = "POST /items"
    /\ resp.called
    /\ resp.body = ManyFaultsBody
    /\ resp.status = 400
    /\ Len(resp.data) = 7

\* C17: an authenticated DELETE of a well-formed id of no stored item is
\* answered 404 "Item not found", changes nothing, and a GET of the id
\* that follows is answered 404; a DELETE of a stored item is answered
\* 204 and removes that item and no other, after which a GET of its id
\* and a second DELETE are answered 404; and the id of an item that is
\* gone is never the id of a stored item again.
C17_DeleteThenGone ==
    /\ [][(resp'.op = "DELETE /items/:id" /\ resp'.called
            /\ IsObjectIdFormat(resp'.id)) =>
             /\ GetItem(items', resp'.id).status = 404
             /\ DeleteItem(items', resp'.id).status = 404
             /\ DeleteItem(items', resp'.id).error = "Item not found"
             /\ IF FindById(items, resp'.id) = {}
                THEN /\ resp'.status = 404
                     /\ resp'.error = "Item not found"
                     /\ items' = items
                ELSE /\ resp'.status = 204
                     /\ items' = items \ {TheItem(items, resp'.id)}]_vars
    /\ [][\A n \in 0..(nextItemId - 1) :
             FindById(items, MkId("a", n)) = {} =>
                 FindById(items', MkId("a", n)) = {}]_vars

\* the second DELETE of the first item was answered 404
C17_Witness ==
    /\ resp.op = "DELETE /items/:id"
    /\ resp.called
    /\ resp.id = MkId("a", 0)
    /\ nextItemId > 0
    /\ resp.status = 404

\* C18 (as stated): no two stored items have the same itemName, a create
\* with the name of a stored item being answered 400.
C18_NamesUnique ==
    \A d1, d2 \in items : d1.itemName = d2.itemName => d1 = d2

(***************************************************************************)
(* Property of the category filter (checked under SpecList).               *)
(***************************************************************************)
\* C19 (as stated): the items GET /items?category=C returns all have a
\* category equal to C when the case of the letters is ignored; an item
\* whose category contains C, or is matched by C read as a pattern, is not
\* returned.
C19_CategoryEquals ==
    (resp.op = "GET /items" /\ resp.status = 200
     /\ Given(resp.body, "category")) =>
        \A i \in DOMAIN resp.data[1].data :
            ToLowerCase(resp.data[1].data[i].category)
                = ToLowerCase(resp.body.category)

(***************************************************************************)
(* Property of the user seeder (checked under SpecGuard, where complete    *)
(* runs of the seeder follow one another among logins and requests).       *)
(***************************************************************************)
DemoEmails == {DemoUsers[i].email : i \in DOMAIN DemoUsers}

\* C20: the user seeder is idempotent.  The store never holds two users of
\* one demo email; a complete run leaves exactly one user for each demo
\* email, creates nothing for an email it finds present, and creates one
\* user for each email it does not find; once a run is complete, a further
\* run leaves the store as it is, whatever salts it draws, so that the
\* store after any number of runs is the store after the first.
C20_SeederIdempotent ==
    /\ [](\A e \in DemoEmails : Cardinality(FindUserByEmail(users, e)) <= 1)
    /\ [][resp'.op = "seedUsers" =>
             /\ \A e \in DemoEmails :
                   /\ Cardinality(FindUserByEmail(users', e)) = 1
                   /\ FindUserByEmail(users, e) # {} =>
                         FindUserByEmail(users', e) = FindUserByEmail(users, e)
             /\ users \subseteq users'
             /\ Cardinality(users' \ users)
                   = Cardinality({e \in DemoEmails : FindUserByEmail(users, e) = {}})
             /\ resp'.storeOps = Len(DemoUsers) + Cardinality(users' \ users)
             /\ \A s1 \in Salts, s2 \in Salts :
                   SeedUsersResult(users', s1, s2) = users'
             /\ \A us \in SUBSET users', s1 \in Salts, s2 \in Salts :
                   \A e \in DemoEmails :
                      /\ Cardinality(FindUserByEmail(SeedUsersResult(us, s1, s2), e)) = 1
                      /\ FindUserByEmail(us, e) \subseteq
                            FindUserByEmail(SeedUsersResult(us, s1, s2), e)]_vars
    /\ [][(\A e \in DemoEmails : FindUserByEmail(users, e) # {}) =>
             users' = users]_vars

\* a run of the seeder found both demo accounts and created nothing
C20_Witness ==
    /\ resp.op = "seedUsers"
    /\ resp.storeOps = Len(DemoUsers)
    /\ Cardinality(users) = Len(DemoUsers)

(***************************************************************************)
(* Property of the user store (checked under Spec).                        *)
(***************************************************************************)
\* C21: no two stored users have the same email, the password field of
\* every stored user is a bcrypt hash and not the password, and no request
\* changes the user store: it is the same after any request, login
\* included, as before it (only the seeder writes it).
C21_UserStore ==
    /\ [](\A u1 \in users, u2 \in users : u1.email = u2.email => u1 = u2)
    /\ [](\A u \in users : u.password.alg = "bcrypt")
    /\ [][resp'.op \notin {"none", "seedUsers"} => users' = users]_vars

\* a login was answered with a token while both demo accounts were stored
C21_Witness ==
    /\ resp.op = "POST /auth/login"
    /\ resp.status = 200
    /\ Cardinality(users) = Len(DemoUsers)

(***************************************************************************)
(* Property of the server without a signing secret (checked under Spec,    *)
(* whose initial states have the secret set or unset).                     *)
(***************************************************************************)
\* the login body has the address and the password of a stored demo account
RightCredentials(body) ==
    /\ IsEmail(body.email) /\ body.password # ""
    /\ FindUserByEmail(users, ToLowerCase(body.email)) # {}
    /\ ~WrongPassword(body.email, body.password)

\* the login body is well formed and has an unknown address or a wrong
\* password
WrongCredentials(body) ==
    /\ IsEmail(body.email) /\ body.password # ""
    /\ \/ FindUserByEmail(users, ToLowerCase(body.email)) = {}
       \/ WrongPassword(body.email, body.password)

\* C22: while the signing secret is not configured, a request to a
\* protected route with a header that starts with "Bearer " is answered
\* 500, not 401, and the controller is not called; a login with the right
\* credentials is answered 500 and gives no token, so that the client never
\* holds one; a request without such a header is answered 401 and a login
\* with wrong credentials is answered 401.
C22_NoSecretIsServerError ==
    jwtSecret = NoSecret =>
        /\ \A hdr \in RequestHeaders :
              LET a == RequireAuth(NoRole, hdr, jwtSecret, now)
              IN  /\ ~a.next
                  /\ a.status = IF NotBearer(hdr) THEN 401 ELSE 500
        /\ resp.op \in ProtectedOps =>
              /\ ~resp.called
              /\ resp.storeOps = 0
              /\ resp.status = IF NotBearer(resp.hdr) THEN 401 ELSE 500
        /\ (resp.op = "POST /auth/login" /\ RightCredentials(resp.body)) =>
              (resp.status = 500 /\ resp.token = <<>>)
        /\ (resp.op = "POST /auth/login" /\ WrongCredentials(resp.body)) =>
              (resp.status = 401 /\ resp.token = <<>>)
        /\ issued = {}
        /\ items = {}

\* without a secret, a write with a Bearer header was answered 500 while
\* the demo accounts were stored
C22_Witness ==
    /\ jwtSecret = NoSecret
    /\ users # {}
    /\ resp.op \in ProtectedOps
    /\ ~NotBearer(resp.hdr)
    /\ resp.status = 500

\* without a secret, a login with the right credentials was answered 500
C22_LoginWitness ==
    /\ jwtSecret = NoSecret
    /\ resp.op = "POST /auth/login"
    /\ RightCredentials(resp.body)
    /\ resp.status = 500

(***************************************************************************)
(* Property of the identity requireAuth attaches (checked under SpecGuard).*)
(***************************************************************************)
GuardOps == {GuardOp(role) : role \in GuardRoles}

\* the identity of the stored user u
IdentityOf(u) == [id |-> u.id, role |-> u.role]

\* C23: the token that a successful login returns, presented as
\* "Bearer <token>" at any time before its expiry, makes requireAuth attach
\* the id and the role of the user who logged in, whatever role the route
\* asks for; and requireAuth attaches an identity only for a header whose
\* token it has verified, the identity being the one the token carries,
\* which is that of a stored user.
C23_IdentityFromToken ==
    /\ (resp.op = "POST /auth/login" /\ resp.status = 200) =>
          LET u == CHOOSE u \in users : u.email = ToLowerCase(resp.body.email)
              tok == resp.token[1]
          IN  /\ FindUserByEmail(users, ToLowerCase(resp.body.email)) = {u}
              /\ tok.payload.exp = resp.at + TokenTTL
              /\ \A t \in resp.at..(tok.payload.exp - 1), role \in GuardRoles :
                    RequireAuth(role, Bearer(tok), jwtSecret, t).user = IdentityOf(u)
    /\ \A hdr \in HeadersFrom(issued), role \in GuardRoles :
          LET a == RequireAuth(role, hdr, jwtSecret, now)
          IN  /\ a.user # NoUser <=> CarriesValidToken(hdr, now)
              /\ a.next => a.user # NoUser
              /\ a.user # NoUser =>
                    /\ a.user = [id |-> hdr.token.payload.sub,
                                 role |-> hdr.token.payload.role]
                    /\ \E u \in users : a.user = IdentityOf(u)
    /\ resp.op \in GuardOps =>
          /\ resp.user # NoUser <=> CarriesValidToken(resp.hdr, resp.at)
          /\ resp.called => resp.user # NoUser
          /\ resp.user # NoUser => \E u \in users : resp.user = IdentityOf(u)

\* the token of the user account passed requireAuth(), which attached the
\* identity of that account
C23_Witness ==
    /\ resp.op = GuardOp(NoRole)
    /\ resp.called
    /\ resp.hdr.token \in issued
    /\ \E u \in users : u.email = UserEmail /\ resp.user = IdentityOf(u)

(***************************************************************************)
(* Property of the length checks (checked under SpecItems).                *)
(***************************************************************************)
\* the least lengths of the item's text fields
MinLength == [itemName |-> 2, description |-> 5, category |-> 2]

\* a text field of the body is shorter than its minimum once the blanks
\* around it are removed
ShortWhenTrimmed(body) ==
    \E f \in ItemStringFields \cap DOMAIN body : Len(Trim(body[f])) < MinLength[f]

\* C24 (as stated): a create, or an update of a stored item, whose
\* itemName, description or category is shorter than its minimum (2, 5, 2)
\* once leading and trailing whitespace is removed is answered 400 and
\* changes nothing, also when the text as sent has the minimum length.
C24_TrimmedLengthChecked ==
    [][(/\ resp'.called
        /\ \/ resp'.op = "POST /items"
           \/ resp'.op = "PUT /items/:id" /\ FindById(items, resp'.id) # {}
        /\ ShortWhenTrimmed(resp'.body))
       => (resp'.status = 400 /\ items' = items)]_vars

(***************************************************************************)
(* Property of the pagination parameters (checked under SpecList).         *)
(***************************************************************************)
\* C25 (as stated): whatever the page and limit parameters of a list
\* request are, the page used is at least 1 and the page size used is
\* between 1 and 100, being 10 for items and 20 for products when limit is
\* absent, so that neither the skip offset nor totalPages is negative.
C25_PaginationClamped ==
    resp.op \in {"GET /items", "GET /products"} =>
        LET m == resp.data[1].meta
        IN  /\ m.page >= 1
            /\ m.limit >= 1 /\ m.limit <= 100
            /\ ~Has(resp.body, "limit") =>
                  m.limit = IF resp.op = "GET /items" THEN 10 ELSE 20
            /\ (m.page - 1) * m.limit >= 0
            /\ m.totalPages >= 0

(***************************************************************************)
(* Property of the two store queries of a listing (checked under SpecList).*)
(***************************************************************************)
\* the number of documents on the page of a listing of total documents
PageLength(size, total, pageNum, limitNum) ==
    Min(size, Max(0, total - (pageNum - 1) * limitNum))

\* what C26 asks of a list response that ends the listing l, matching being
\* the number of documents of the store that match its filter now, and the
\* page size being size
TwoRoundTrips(l, r, matching, size) ==
    LET m == r.data[1].meta
    IN  /\ r.data[1].data = l.data
        /\ m.total = matching
        /\ m.page = l.page /\ m.limit = l.limit
        /\ Len(l.data) = PageLength(size, l.matched, l.page, l.limit)
        /\ l.matched = m.total =>
              Len(r.data[1].data) = PageLength(size, m.total, m.page, m.limit)

ListOps == {"GET /items", "GET /products"}

\* the number of documents that match the filter of the listing l
MatchingNow(l, its, ps) ==
    IF l.op = "GET /items" THEN Cardinality(MatchingItems(its, l.query))
    ELSE Cardinality(MatchingProducts(ps, l.query))

\* C26, the page size being the absolute value of the limit used, as the
\* store takes it: a list request finds its page first and counts second;
\* the data of the response is the page found when the find ran and
\* meta.total is the number of documents that match when the response is
\* made, whatever was written in between; when the number of matching
\* documents is the same at both times, data has exactly
\* min(size, max(0, total - (page - 1) * limit)) items.
C26_TwoRoundTrips ==
    [][(listing.active /\ listing.op \in ListOps /\ resp'.op = listing.op) =>
          TwoRoundTrips(listing, resp', MatchingNow(listing, items', products'),
                        IF listing.limit < 0 THEN 0 - listing.limit
                        ELSE listing.limit)]_vars

\* C26 (as stated): a list request finds its page first and counts second,
\* so that data and meta.total can come from different states of the store;
\* when no write fell in between, data has exactly
\* min(limit, max(0, total - (page - 1) * limit)) items.
C26_AsStated ==
    [][(listing.active /\ listing.op \in ListOps /\ resp'.op = listing.op) =>
          TwoRoundTrips(listing, resp', MatchingNow(listing, items', products'),
                        listing.limit)]_vars

\* a product was deleted between the find and the count of a listing: the
\* response has it in data and a total of 0
C26_DataBeyondTotal ==
    /\ resp.op = "GET /products"
    /\ Len(resp.data[1].data) = 1
    /\ resp.data[1].meta.total = 0

(***************************************************************************)
(* Property of the requests that write nothing (checked under SpecFrame).  *)
(***************************************************************************)
ErrorStatuses == {400, 401, 403, 404}

ReadOnlyOps ==
    {"GET /items", "GET /items/:id", "GET /items/stats", "GET /items/categories",
     "POST /items/generate-description", "GET /products", "GET /products/:id",
     "POST /auth/login"}

\* C27: a request that is answered 400, 401, 403 or 404 leaves the item
\* store and the product store as they were, and a request to a read-only
\* endpoint (list, getById, stats, categories, generate-description,
\* login), at each of its steps and whatever its answer, leaves the item,
\* product and user stores as they were.
C27_ErrorsAndReadsWriteNothing ==
    /\ [][resp'.status \in ErrorStatuses =>
             (items' = items /\ products' = products)]_vars
    /\ [][(resp'.op \in ReadOnlyOps \/ listing' # listing) =>
             (items' = items /\ products' = products /\ users' = users
              /\ nextItemId' = nextItemId /\ nextProdId' = nextProdId)]_vars

\* an update of a stored item with a description of blanks, sent with a
\* valid token, was answered 400
C27_Witness ==
    /\ resp.op = "PUT /items/:id"
    /\ resp.called
    /\ resp.status = 400
    /\ resp.body = [description |-> BlankText]
    /\ FindById(items, resp.id) # {}

\* C28: once the client has logged in, a create, update or delete of an
\* item that goes through its api module carries the stored token in a
\* Bearer Authorization header and is not answered 401
C28_ClientWritesAuthorized ==
    (resp.op \in ProtectedOps /\ issued # {}) =>
        /\ resp.hdr \in HeldToken
        /\ resp.status # 401

\* C29: after a delete on the ItemList page, "Item deleted successfully" is
\* shown only when the server answered 204, and an error notification is
\* shown when it answered 400, 401 or 404
C29_DeleteNotification ==
    (ui.open /\ resp.op = "DELETE /items/:id") =>
        /\ ui.notification.text = "Item deleted successfully" => resp.status = 204
        /\ resp.status \in {400, 401, 404} => ui.notification.severity = "error"

\* the delete did not reach the server, and the page shows the error
C29_NetworkFailureShown ==
    /\ ui.open
    /\ ui.notification.severity = "error"
    /\ ui.notification.detail = "Failed to fetch"

\* the page shows what the store answers to the query
ShowsResponseTo(page, query, its) ==
    LET matching == MatchingItems(its, query)
        limitNum == LimitNum(query, <<"1","0">>, 10)
        pageNum == PageNum(query)
    IN  /\ page.items \in FindPage(matching, (pageNum - 1) * limitNum, limitNum)
        /\ page.pagination = <<ListMeta(Cardinality(matching), pageNum, limitNum)>>

\* C30: once every list request of the ItemList page has completed, the
\* items and the pagination shown are those of the response to the latest
\* selection of search, category and page, in whatever order the responses
\* arrived; and a change of the search or of the category sets the page to 1
C30_LatestSelectionShown ==
    /\ []((ui.open /\ ui.inflight = {}) => ShowsResponseTo(ui, LoadItemsQuery(ui), items))
    /\ [][(ui'.searchQuery # ui.searchQuery \/ ui'.selectedCategory # ui.selectedCategory)
             => ui'.currentPage = 1]_vars

\* the part of C30 on the page number alone
C30_PageReset ==
    [][(ui'.searchQuery # ui.searchQuery \/ ui'.selectedCategory # ui.selectedCategory)
         => ui'.currentPage = 1]_vars

\* the search was changed while the second page was selected
C30_ResetFromSecondPage ==
    /\ ui.open
    /\ ui.searchQuery = Str3
    /\ ui.currentPage = 1
    /\ \E r \in ui.inflight : Has(r.query, "page") /\ r.query.page = StringOfDigit(2)

====
